---- MODULE Spec2Model ----
(***************************************************************************)
(* The translation worker of src/backend/routes/translatorRoutes.js:       *)
(* processTranslationJob (lines 21-256), pushLog (258-262) and the job     *)
(* record the start route creates (330-338), as one state machine.  Every  *)
(* awaited database / content-store / LLM call is a step of the worker; an *)
(* external actor (pausing the job, deleting the novel) may act between    *)
(* two steps.                                                              *)
(***************************************************************************)
EXTENDS Integers, Sequences, FiniteSets, TLC

\* ------------------------------------------------------------------ bounds
MaxTargets == 2        \* longest targetChapters list a job is created with
MaxFaults == 2         \* failures (of the LLM, of a store, the novel deleted) in one audited run
MaxEdits == 2          \* requests of the novel's other users (admin, another job) during one run

\* --------------------------------------------------------------- constants
MIN_LENGTH == 50       \* the minimum content length of the earlier worker revision

\* the chapter numbers of the novel
Chapters == {1, 2, 3, 4, 5}

\* ------------------------------------------------------------------- texts
\* A text is known by its number of non-blank characters, of blanks between
\* them (inner) and of blanks at its two ends (outer), and by whether it is an
\* Arabic translation.
EmptyText == [ar |-> FALSE, chars |-> 0, inner |-> 0, outer |-> 0]
BlankText == [ar |-> FALSE, chars |-> 0, inner |-> 0, outer |-> 3]
ShortText == [ar |-> FALSE, chars |-> 10, inner |-> 2, outer |-> 1]
FullText == [ar |-> FALSE, chars |-> 60, inner |-> 10, outer |-> 1]
ArabicText == [ar |-> TRUE, chars |-> 60, inner |-> 10, outer |-> 0]

\* String.prototype.length
Length(t) == t.chars + t.inner + t.outer

\* sourceContent.trim().length
TrimLength(t) == t.chars + t.inner

\* !sourceContent || sourceContent.trim().length === 0
IsBlank(t) == Length(t) = 0 \/ TrimLength(t) = 0

\* if (translatedText): a non-empty string is truthy
IsTruthy(t) == Length(t) > 0

\* a Firestore chapter document
NoDoc == [exists |-> FALSE, content |-> EmptyText]
Doc(t) == [exists |-> TRUE, content |-> t]

\* docSnap.exists ? (data.content || "") : ""
DocContent(d) == IF d.exists THEN d.content ELSE EmptyText

\* chapter titles of the novel's chapter list
OriginalTitle(n) == [generated |-> FALSE, number |-> n]
GeneratedTitle(n) == [generated |-> TRUE, number |-> n]

\* ---------------------------------------------------------------- job data
\* the list as the job holds it, left in the order it was given
Unsorted(s) == s

\* job.targetChapters.sort((a, b) => a - b): ascending numeric order.

RECURSIVE InsertSorted(_, _)
InsertSorted(x, s) ==
    IF s = <<>> THEN <<x>>
    ELSE IF x < Head(s) THEN <<x>> \o s
    ELSE <<Head(s)>> \o InsertSorted(x, Tail(s))

RECURSIVE SortAscending(_)
SortAscending(s) ==
    IF s = <<>> THEN <<>> ELSE InsertSorted(s[Len(s)], SortAscending(SubSeq(s, 1, Len(s) - 1)))

\* a key list that falls back on a key of the environment when both are empty
KeysOrDefault(jobKeys, globalKeys) ==
    IF Len(jobKeys) > 0 THEN jobKeys ELSE IF Len(globalKeys) > 0 THEN globalKeys ELSE <<"env">>

\* a key list that merges the keys of the job with those of the settings
MergedKeys(jobKeys, globalKeys) == jobKeys \o globalKeys

\* (job.apiKeys && job.apiKeys.length > 0) ? job.apiKeys : (settings?.translatorApiKeys || [])
EffectiveKeys(jobKeys, globalKeys) == IF Len(jobKeys) > 0 THEN jobKeys ELSE globalKeys

\* a choice of key that ignores the cursor
FirstKey(ks, i) == ks[1]

\* keys[keyIndex % keys.length]
CurrentKey(ks, i) == ks[(i % Len(ks)) + 1]

\* err.message.includes('429') || err.message.includes('quota')
IsRateLimit(message) == message \in {"429", "quota"}

\* a status test that lets a paused job through
IsNotFinished(st) == st \in {"active", "paused"}

\* job.status !== 'active' is what stops the worker
IsActive(st) == st = "active"

\* a queue that takes the chapter back at its end
Push(queue, n) == queue \o <<n>>

\* chaptersToProcess.unshift(chapterNum) under the running for...of: the array
\* iterator keeps an index, the unshift moves every element one place up, so the
\* element the iterator yields next is chapterNum again and the elements after
\* it are the ones that were still to come.  chaptersToProcess holds the
\* elements the iterator has not yielded yet.
Unshift(queue, n) == <<n>> \o queue

\* the number of distinct chapters of a list
DistinctTotalOf(list) == Cardinality({list[i] : i \in 1..Len(list)})

\* totalToTranslate: targetChapters.length
TotalOf(list) == Len(list)

\* one entry of job.logs (pushLog's { message, type, timestamp })
LogEntry(type, message, n) == [type |-> type, message |-> message, chapter |-> n]

\* the start route's first log entry
StartEntry == LogEntry("info", "started", 0)

\* ----------------------------------------------------------------- glossary
Terms == {"Sect", "Qi"}
Translations == {"a", "b"}

\* what the extraction call may answer, once parsed (jsonExt): no list, an
\* empty list, a list that names one term twice, a list with an entry that
\* lacks its term
ExtractResults ==
    { [hasNewTerms |-> FALSE, newTerms |-> <<>>],
      [hasNewTerms |-> TRUE, newTerms |-> <<>>],
      [hasNewTerms |-> TRUE, newTerms |-> <<[term |-> "Sect", translation |-> "a"],
                                            [term |-> "Qi", translation |-> ""],
                                            [term |-> "Sect", translation |-> "b"]>>],
      [hasNewTerms |-> TRUE, newTerms |-> <<[term |-> "Sect", translation |-> "b"],
                                            [term |-> "", translation |-> "a"],
                                            [term |-> "Qi", translation |-> "a"]>>] }

\* a test that asks for the term only
HasTermField(e) == e.term # ""

\* termObj.term && termObj.translation
IsValidTerm(e) == e.term # "" /\ e.translation # ""

HasTerm(g, term) == \E i \in 1..Len(g) : g[i].term = term

FirstIndexOf(g, term) == CHOOSE i \in 1..Len(g) : g[i].term = term /\ \A j \in 1..(i - 1) : g[j].term # term

\* an upsert that sets the autoGenerated flag by $set, on every write
UpsertAndFlag(g, e) ==
    IF HasTerm(g, e.term)
    THEN [g EXCEPT ![FirstIndexOf(g, e.term)] =
            [term |-> e.term, translation |-> e.translation, autoGenerated |-> TRUE]]
    ELSE Append(g, [term |-> e.term, translation |-> e.translation, autoGenerated |-> TRUE])

\* a write that inserts a new entry whatever the glossary holds
InsertAlways(g, e) ==
    Append(g, [term |-> e.term, translation |-> e.translation, autoGenerated |-> TRUE])

\* a create-if-absent that leaves an existing entry's translation as it is
CreateIfAbsent(g, e) ==
    IF HasTerm(g, e.term)
    THEN g
    ELSE Append(g, [term |-> e.term, translation |-> e.translation, autoGenerated |-> TRUE])

\* Glossary.updateOne({ novelId, term }, { $set: { translation },
\*                    $setOnInsert: { autoGenerated: true } }, { upsert: true })
UpsertTerm(g, e) ==
    IF HasTerm(g, e.term)
    THEN [g EXCEPT ![FirstIndexOf(g, e.term)].translation = e.translation]
    ELSE Append(g, [term |-> e.term, translation |-> e.translation, autoGenerated |-> TRUE])

\* the terms of a glossary
TermsOf(g) == {g[i].term : i \in 1..Len(g)}

\* for (const termObj of jsonExt.newTerms) if (termObj.term && termObj.translation) upsert
RECURSIVE ApplyTerms(_, _)
ApplyTerms(g, list) ==
    IF list = <<>> THEN g
    ELSE ApplyTerms(IF IsValidTerm(Head(list)) THEN UpsertTerm(g, Head(list)) ELSE g, Tail(list))

\* POST /api/translator/glossary on a term the glossary holds:
\* findOneAndUpdate({ novelId, term }, { translation, autoGenerated: false })
ManualSet(g, e) ==
    [g EXCEPT ![FirstIndexOf(g, e.term)] =
        [term |-> e.term, translation |-> e.translation, autoGenerated |-> FALSE]]

\* an upsert of another client on a term the glossary holds: the admin's
\* (autoGenerated false) or another job's (line 177)
UpdateEntry(g, e) == IF e.autoGenerated THEN UpsertTerm(g, e) ELSE ManualSet(g, e)

\* The insert half of an upsert that matched no entry.  The glossary collection
\* keeps (novel, term) unique: an insert of a term that is there by now is
\* refused.
InsertUnique(g, e) == IF HasTerm(g, e.term) THEN g ELSE Append(g, e)

\* Glossary.findByIdAndDelete(id), Glossary.deleteMany({ _id: { $in: ids } })
RemoveAt(g, i) == SubSeq(g, 1, i - 1) \o SubSeq(g, i + 1, Len(g))

\* What the novel's other users upsert: another job a term it extracted, the
\* admin a translation ("m") that no extraction answers, also for a term that
\* differs from an extracted one by its case only.
OtherRequests ==
    { [term |-> "Sect", translation |-> "a", autoGenerated |-> TRUE],
      [term |-> "Sect", translation |-> "m", autoGenerated |-> FALSE],
      [term |-> "sect", translation |-> "m", autoGenerated |-> FALSE] }

\* a glossary text made of the curated entries only
CuratedText(g) ==
    LET c == SelectSeq(g, LAMBDA e : ~e.autoGenerated) IN
    [i \in 1..Len(c) |-> <<c[i].term, c[i].translation>>]

\* glossaryItems.map(g => `"${g.term}": "${g.translation}"`)
GlossaryText(g) == [i \in 1..Len(g) |-> <<g[i].term, g[i].translation>>]

\* -------------------------------------------------------------------- state
VARIABLES
    \* the TranslationJob record
    status, translatedCount, totalToTranslate, currentChapter, targetChapters,
    apiKeys, logs,
    \* the Settings record, the content store handle, the novel and its stores
    settingsKeys, firestore, novelExists, chapters, content, glossary,
    \* processTranslationJob: its position and its locals
    pc, keys, keyIndex, chaptersToProcess, chapterNum, sourceContent,
    glossaryText, translatedText, pendingTerms, newTermsCount, err,
    \* what the run has done so far (observers, never read by the worker)
    audit, exit, broke, faults, attempts, fetches, extractions, retryOf, retryFaults,
    \* the other users of the novel: the requests they have made, the glossary
    \* inserts of theirs that are under way, and (observers) the terms this job
    \* has upserted, those the others have deleted and those they have written
    \* since it last upserted them, and the last extraction result
    edits, inflight, upserted, removed, changed, extracted, watch,
    \* the other fields of the Settings record, the worker's copies of them,
    \* and (observers) the last call made to the language model and the
    \* writes this job has made to the content store
    settings, transPrompt, extractPrompt, selectedModel, lastCall, written,
    \* POST /api/translator/start: the body of the request, the keys saved in
    \* the requesting user's Settings record, the answer given, and (observers)
    \* the job records the route has saved and the worker runs it has started
    request, savedKeys, response, jobs, workers

jobVars == <<status, translatedCount, totalToTranslate, currentChapter, targetChapters, apiKeys, logs>>
storeVars == <<settingsKeys, firestore, novelExists, chapters, content, glossary>>
localVars == <<pc, keys, keyIndex, chaptersToProcess, chapterNum, sourceContent,
               glossaryText, translatedText, pendingTerms, newTermsCount, err>>
seenVars == <<audit, exit, broke, faults, attempts, fetches, extractions, retryOf, retryFaults>>
sharedVars == <<edits, inflight, upserted, removed, changed, extracted, watch>>
configVars == <<settings, transPrompt, extractPrompt, selectedModel, lastCall, written>>
routeVars == <<request, savedKeys, response, jobs, workers>>
vars == <<jobVars, storeVars, localVars, seenVars, sharedVars, configVars, routeVars>>

\* what the worker never assigns after the job is created
fixedVars == <<totalToTranslate, targetChapters, apiKeys, settingsKeys, firestore, audit>>

\* ------------------------------------------------------------------- inputs
\* the chapters the jobs of Spec target, and their targetChapters lists
JobChapters == {1, 2}
TargetLists == UNION {[1..n -> JobChapters] : n \in 0..MaxTargets}

\* the lists of three target chapters, in any order, of OrderSpec
OrderLists == [1..3 -> {3, 4, 5}]

ChapterKinds == {"full", "short", "blank", "nodoc", "unlisted"}

\* a novel: chapter 2 is of any kind, the others are listed with a full source
\* text
Novels == {w \in [Chapters -> ChapterKinds] : \A c \in Chapters \ {2} : w[c] = "full"}

\* lines 57-60: the defaults for what the settings leave unset
DefaultTransPrompt == "You are a professional translator."
DefaultExtractPrompt == "Analyze the English source and Arabic translation."
DefaultModel == "gemini-1.5-flash"

\* settings?.field || fallback
OrDefault(value, fallback) == IF value = "" THEN fallback ELSE value

\* the Settings record as the job finds it, and as an admin may save it
\* while the job runs
SavedSettings ==
    [translatorModel |-> "gemini-2.0-flash", customPrompt |-> "",
     translatorExtractPrompt |-> "custom extraction"]
ChangedSettings ==
    [translatorModel |-> "", customPrompt |-> "custom translation",
     translatorExtractPrompt |-> ""]
ChangedKeys == <<"g9">>

\* no call made yet
NoCall == [kind |-> "none", chapter |-> 0, cursor |-> 0, key |-> "", model |-> "", prompt |-> ""]

\* The job document's own keys and the global keys of the settings.  The start
\* route stores at least one key in the job; the worker reads the document and
\* also provides for one that holds none (line 45), falling back on the
\* settings, which may hold none either.
KeySetups ==
    { [job |-> <<>>, global |-> <<>>],
      [job |-> <<>>, global |-> <<"g1">>],
      [job |-> <<"k1", "k2">>, global |-> <<"g1">>] }

KindDoc(k) ==
    CASE k = "full" -> Doc(FullText)
      [] k = "short" -> Doc(ShortText)
      [] k = "blank" -> Doc(BlankText)
      [] OTHER -> NoDoc

\* req.body of POST /api/translator/start: apiKeys, the chapter selector
\* ('all', a list of numbers, a list with an entry that is no number, or
\* anything else) and resumeFrom (0 when absent)
Selectors == {[kind |-> "all", list |-> <<>>], [kind |-> "list", list |-> <<2, 1>>],
              [kind |-> "invalid", list |-> <<>>], [kind |-> "other", list |-> <<>>]}
Requests == [apiKeys : {<<>>, <<"k1", "k2">>}, chapters : Selectors, resumeFrom : {0, 2, 9}]

\* the request of a job that exists already: answered, and not kept
NoRequest == [apiKeys |-> <<>>, chapters |-> [kind |-> "other", list |-> <<>>], resumeFrom |-> 0]

\* the job document the worker is started on (POST /api/translator/start saves
\* it active, with counters at zero, its total and its first log entry), and
\* the stores it runs on
InitWith(a, shared, lists, novels, setups) ==
    /\ status = "active"
    /\ translatedCount = 0
    /\ currentChapter = 0
    /\ targetChapters \in lists
    /\ totalToTranslate = TotalOf(targetChapters)
    /\ \E k \in setups : apiKeys = k.job /\ settingsKeys = k.global
    /\ logs = IF a THEN <<StartEntry>> ELSE <<>>
    /\ firestore \in BOOLEAN
    /\ novelExists = TRUE
    /\ \E w \in novels :
          /\ chapters = [c \in {n \in Chapters : w[n] # "unlisted"} |-> OriginalTitle(c)]
          /\ content = [c \in Chapters |-> KindDoc(w[c])]
    /\ glossary = <<>>
    /\ pc = "start"
    /\ keys = <<>>
    /\ keyIndex = 0
    /\ chaptersToProcess = <<>>
    /\ chapterNum = 0
    /\ sourceContent = EmptyText
    /\ glossaryText = <<>>
    /\ translatedText = EmptyText
    /\ pendingTerms = <<>>
    /\ newTermsCount = 0
    /\ err = "none"
    /\ audit = a
    /\ exit = "running"
    /\ broke = FALSE
    /\ faults = 0
    /\ attempts = <<>>
    /\ fetches = 0
    /\ extractions = 0
    /\ retryOf = 0
    /\ retryFaults = 0
    /\ edits = 0
    /\ inflight = {}
    /\ upserted = {}
    /\ removed = {}
    /\ changed = {}
    /\ extracted = <<>>
    /\ watch = shared
    /\ settings = SavedSettings
    /\ transPrompt = ""
    /\ extractPrompt = ""
    /\ selectedModel = ""
    /\ lastCall = NoCall
    /\ written = <<>>
    /\ request = NoRequest
    /\ savedKeys = settingsKeys
    /\ response = 200
    /\ jobs = 1
    /\ workers = 1

Init == InitWith(TRUE, FALSE, TargetLists, Novels, KeySetups)

\* ------------------------------------------------------------------ helpers
\* a log write that is lost
LogNothing(l, type, message, n) == l

\* a log write that puts the new entry first
PushLogFront(l, type, message, n) == IF audit THEN <<LogEntry(type, message, n)>> \o l ELSE l

\* pushLog: $push onto job.logs.  A run that is not audited keeps no log.
PushLog(l, type, message, n) == IF audit THEN Append(l, LogEntry(type, message, n)) ELSE l

\* keyIndex++.  The cursor is only ever read modulo keys.length, and a run that
\* is not audited keeps it modulo keys.length.
NextKeyIndex(i) == IF audit THEN i + 1 ELSE (i + 1) % Len(keys)

Count(n) == IF audit THEN n + 1 ELSE n

\* a call that takes the model and the key list from the Settings record as
\* it is when the call is made
LlmCallFresh(kind, cursor, prompt) ==
    IF audit
    THEN [kind |-> kind, chapter |-> chapterNum, cursor |-> cursor,
          key |-> CurrentKey(EffectiveKeys(apiKeys, settingsKeys), cursor),
          model |-> OrDefault(settings.translatorModel, DefaultModel), prompt |-> prompt]
    ELSE lastCall

\* getModel() and generateContent: the call as the provider sees it.  A run
\* that is not audited keeps no record of it.
LlmCall(kind, cursor, prompt) ==
    IF audit
    THEN [kind |-> kind, chapter |-> chapterNum, cursor |-> cursor, key |-> CurrentKey(keys, cursor),
          model |-> selectedModel, prompt |-> prompt]
    ELSE lastCall

\* docRef.set({ title, content, lastUpdated }, { merge: true }), as the
\* content store sees it.  A run that is not audited keeps no record of it.
Written(text) ==
    IF audit THEN Append(written, [chapter |-> chapterNum, text |-> text]) ELSE written

\* an audited run takes at most MaxFaults failing answers, the requests of the
\* novel's other users counted with them
MayFail == audit => faults + edits < MaxFaults

\* the locals of one loop iteration, as a new iteration finds them
ResetIteration ==
    /\ sourceContent' = EmptyText
    /\ glossaryText' = <<>>
    /\ translatedText' = EmptyText
    /\ pendingTerms' = <<>>
    /\ newTermsCount' = 0
    /\ err' = "none"

\* ------------------------------------------------ POST /api/translator/start
\* novel.chapters.map(c => c.number): the numbers of the novel's chapters, in
\* one of the orders the novel may list them in
ChapterOrders ==
    {o \in [1..Cardinality(DOMAIN chapters) -> DOMAIN chapters] :
        \A i, j \in DOMAIN o : o[i] = o[j] => i = j}

\* lines 318-328: resumeFrom first, then 'all', then a list, else nothing
RequestedChapters(req, listed) ==
    IF req.resumeFrom # 0 THEN SelectSeq(listed, LAMBDA n : n >= req.resumeFrom)
    ELSE IF req.chapters.kind = "all" THEN listed
    ELSE IF req.chapters.kind = "list" THEN req.chapters.list
    ELSE <<>>

\* job.save() validates targetChapters, declared [Number]: a list taken from
\* the request with an entry that is no number makes it throw
SaveRejects(req) == req.resumeFrom = 0 /\ req.chapters.kind = "invalid"

\* a start route that does not look for a key
StartRouteUnchecked ==
    /\ pc = "route"
    /\ \/ /\ ~novelExists
          /\ response' = 404
          /\ pc' = "answered"
          /\ UNCHANGED <<jobVars, jobs, workers, faults>>
       \/ /\ novelExists
          /\ SaveRejects(request)
          /\ response' = 500
          /\ pc' = "answered"
          /\ UNCHANGED <<jobVars, jobs, workers, faults>>
       \/ /\ novelExists
          /\ ~SaveRejects(request)
          /\ \E listed \in ChapterOrders : targetChapters' = RequestedChapters(request, listed)
          /\ totalToTranslate' = TotalOf(targetChapters')
          /\ apiKeys' = EffectiveKeys(request.apiKeys, savedKeys)
          /\ status' = "active"
          /\ translatedCount' = 0
          /\ currentChapter' = 0
          /\ logs' = IF audit THEN <<StartEntry>> ELSE <<>>
          /\ jobs' = jobs + 1
          /\ workers' = workers + 1
          /\ response' = 200
          /\ pc' = "start"
          /\ UNCHANGED faults
       \/ /\ MayFail
          /\ faults' = Count(faults)
          /\ response' = 500
          /\ pc' = "answered"
          /\ UNCHANGED <<jobVars, jobs, workers>>
    /\ UNCHANGED storeVars
    /\ UNCHANGED <<keys, keyIndex, chaptersToProcess, chapterNum, sourceContent, glossaryText,
                   translatedText, pendingTerms, newTermsCount, err>>
    /\ UNCHANGED <<audit, exit, broke, attempts, fetches, extractions, retryOf, retryFaults>>
    /\ UNCHANGED sharedVars
    /\ UNCHANGED configVars
    /\ UNCHANGED <<request, savedKeys>>

\* lines 302-347: 404 without the novel, 400 without a key; else the job is
\* saved and the worker started on it; a save that the schema rejects, and
\* any database call that throws, is answered 500 by the catch of line 344.
StartRoute ==
    /\ pc = "route"
    /\ \/ /\ ~novelExists
          /\ response' = 404
          /\ pc' = "answered"
          /\ UNCHANGED <<jobVars, jobs, workers, faults>>
       \/ /\ novelExists
          /\ EffectiveKeys(request.apiKeys, savedKeys) = <<>>
          /\ response' = 400
          /\ pc' = "answered"
          /\ UNCHANGED <<jobVars, jobs, workers, faults>>
       \/ /\ novelExists
          /\ EffectiveKeys(request.apiKeys, savedKeys) # <<>>
          /\ SaveRejects(request)
          /\ response' = 500
          /\ pc' = "answered"
          /\ UNCHANGED <<jobVars, jobs, workers, faults>>
       \/ /\ novelExists
          /\ EffectiveKeys(request.apiKeys, savedKeys) # <<>>
          /\ ~SaveRejects(request)
          /\ \E listed \in ChapterOrders : targetChapters' = RequestedChapters(request, listed)
          /\ totalToTranslate' = TotalOf(targetChapters')
          /\ apiKeys' = EffectiveKeys(request.apiKeys, savedKeys)
          /\ status' = "active"
          /\ translatedCount' = 0
          /\ currentChapter' = 0
          /\ logs' = IF audit THEN <<StartEntry>> ELSE <<>>
          /\ jobs' = jobs + 1
          /\ workers' = workers + 1
          /\ response' = 200
          /\ pc' = "start"
          /\ UNCHANGED faults
       \/ /\ MayFail
          /\ faults' = Count(faults)
          /\ response' = 500
          /\ pc' = "answered"
          /\ UNCHANGED <<jobVars, jobs, workers>>
    /\ UNCHANGED storeVars
    /\ UNCHANGED <<keys, keyIndex, chaptersToProcess, chapterNum, sourceContent, glossaryText,
                   translatedText, pendingTerms, newTermsCount, err>>
    /\ UNCHANGED <<audit, exit, broke, attempts, fetches, extractions, retryOf, retryFaults>>
    /\ UNCHANGED sharedVars
    /\ UNCHANGED configVars
    /\ UNCHANGED <<request, savedKeys>>

\* ---------------------------------------------------- processTranslationJob
\* lines 23-31: read the job; return unless it is active; fail it when the
\* content store is not connected.
Start ==
    /\ pc = "start"
    /\ IF ~IsActive(status)
       THEN /\ pc' = "done" /\ exit' = "notActive"
            /\ UNCHANGED <<status, logs>>
       ELSE IF ~firestore
       THEN /\ status' = "failed"
            /\ logs' = PushLog(logs, "error", "noFirestore", 0)
            /\ pc' = "done" /\ exit' = "noFirestore"
       ELSE /\ pc' = "loadNovel"
            /\ UNCHANGED <<status, logs, exit>>
    /\ UNCHANGED <<translatedCount, currentChapter, fixedVars, novelExists, chapters, content, glossary>>
    /\ UNCHANGED <<keys, keyIndex, chaptersToProcess, chapterNum, sourceContent, glossaryText,
                   translatedText, pendingTerms, newTermsCount, err>>
    /\ UNCHANGED <<broke, faults, attempts, fetches, extractions, retryOf, retryFaults>>
    /\ UNCHANGED sharedVars
    /\ UNCHANGED configVars
    /\ UNCHANGED routeVars

\* lines 33-39: the novel must exist.
LoadNovel ==
    /\ pc = "loadNovel"
    /\ IF ~novelExists
       THEN /\ status' = "failed"
            /\ logs' = PushLog(logs, "error", "noNovel", 0)
            /\ pc' = "done" /\ exit' = "noNovel"
       ELSE /\ pc' = "loadSettings"
            /\ UNCHANGED <<status, logs, exit>>
    /\ UNCHANGED <<translatedCount, currentChapter, fixedVars, novelExists, chapters, content, glossary>>
    /\ UNCHANGED <<keys, keyIndex, chaptersToProcess, chapterNum, sourceContent, glossaryText,
                   translatedText, pendingTerms, newTermsCount, err>>
    /\ UNCHANGED <<broke, faults, attempts, fetches, extractions, retryOf, retryFaults>>
    /\ UNCHANGED sharedVars
    /\ UNCHANGED configVars
    /\ UNCHANGED routeVars

\* lines 42-63: settings, the key list, the cursor, the sorted chapters.
LoadSettings ==
    /\ pc = "loadSettings"
    /\ keys' = EffectiveKeys(apiKeys, settingsKeys)
    /\ IF Len(keys') = 0
       THEN /\ status' = "failed"
            /\ logs' = PushLog(logs, "error", "noKeys", 0)
            /\ pc' = "done" /\ exit' = "noKeys"
            /\ UNCHANGED <<keyIndex, chaptersToProcess>>
       ELSE /\ keyIndex' = 0
            /\ chaptersToProcess' = SortAscending(targetChapters)
            /\ pc' = "loopHead"
            /\ UNCHANGED <<status, logs, exit>>
    /\ UNCHANGED <<translatedCount, currentChapter, fixedVars, novelExists, chapters, content, glossary>>
    /\ UNCHANGED <<chapterNum, sourceContent, glossaryText, translatedText, pendingTerms, newTermsCount, err>>
    /\ UNCHANGED <<broke, faults, attempts, fetches, extractions, retryOf, retryFaults>>
    /\ UNCHANGED sharedVars
    /\ IF Len(keys') = 0
       THEN UNCHANGED <<transPrompt, extractPrompt, selectedModel>>
       ELSE /\ transPrompt' = OrDefault(settings.customPrompt, DefaultTransPrompt)
            /\ extractPrompt' = OrDefault(settings.translatorExtractPrompt, DefaultExtractPrompt)
            /\ selectedModel' = OrDefault(settings.translatorModel, DefaultModel)
    /\ UNCHANGED <<settings, lastCall, written>>
    /\ UNCHANGED routeVars

\* a loop that does not read the job again
LoopHeadNoRecheck ==
    /\ pc = "loopHead"
    /\ IF chaptersToProcess = <<>>
       THEN /\ pc' = "finish"
            /\ UNCHANGED <<chapterNum, chaptersToProcess, broke>>
       ELSE /\ chapterNum' = Head(chaptersToProcess)
            /\ chaptersToProcess' = Tail(chaptersToProcess)
            /\ pc' = "findChapter" /\ UNCHANGED broke
    /\ ResetIteration
    /\ UNCHANGED <<jobVars, storeVars, keys, keyIndex>>
    /\ UNCHANGED <<audit, exit, faults, attempts, fetches, extractions, retryOf, retryFaults>>
    /\ extracted' = <<>>
    /\ UNCHANGED <<edits, inflight, upserted, removed, changed, watch>>
    /\ UNCHANGED configVars
    /\ UNCHANGED routeVars

\* lines 65-68: the iterator yields the next chapter, the job is read again,
\* and a job that is no longer active breaks the loop.
LoopHead ==
    /\ pc = "loopHead"
    /\ IF chaptersToProcess = <<>>
       THEN /\ pc' = "finish"
            /\ UNCHANGED <<chapterNum, chaptersToProcess, broke>>
       ELSE /\ chapterNum' = Head(chaptersToProcess)
            /\ chaptersToProcess' = Tail(chaptersToProcess)
            /\ IF ~IsActive(status)
               THEN pc' = "finish" /\ broke' = TRUE
               ELSE pc' = "findChapter" /\ UNCHANGED broke
    /\ ResetIteration
    /\ UNCHANGED <<jobVars, storeVars, keys, keyIndex>>
    /\ UNCHANGED <<audit, exit, faults, attempts, fetches, extractions, retryOf, retryFaults>>
    /\ extracted' = <<>>
    /\ UNCHANGED <<edits, inflight, upserted, removed, changed, watch>>
    /\ UNCHANGED configVars
    /\ UNCHANGED routeVars

\* a worker that does not look the chapter up in the novel's list
FindChapterUnchecked ==
    /\ pc = "findChapter"
    /\ IF ~novelExists
       THEN pc' = "catch" /\ UNCHANGED logs
       ELSE pc' = "fetch" /\ UNCHANGED logs
    /\ UNCHANGED <<status, translatedCount, currentChapter, fixedVars, novelExists, chapters, content, glossary>>
    /\ UNCHANGED <<keys, keyIndex, chaptersToProcess, chapterNum, sourceContent, glossaryText,
                   translatedText, pendingTerms, newTermsCount, err>>
    /\ UNCHANGED <<exit, broke, faults, attempts, fetches, extractions, retryOf, retryFaults>>
    /\ UNCHANGED sharedVars
    /\ UNCHANGED configVars
    /\ UNCHANGED routeVars

\* lines 71-77: a fresh copy of the novel; a chapter that is not in its list is
\* skipped.  freshNovel.chapters of a novel that is gone throws.
FindChapter ==
    /\ pc = "findChapter"
    /\ IF ~novelExists
       THEN pc' = "catch" /\ UNCHANGED logs
       ELSE IF chapterNum \notin DOMAIN chapters
       THEN /\ logs' = PushLog(logs, "warning", "notInIndex", chapterNum)
            /\ pc' = "loopHead"
       ELSE pc' = "fetch" /\ UNCHANGED logs
    /\ UNCHANGED <<status, translatedCount, currentChapter, fixedVars, novelExists, chapters, content, glossary>>
    /\ UNCHANGED <<keys, keyIndex, chaptersToProcess, chapterNum, sourceContent, glossaryText,
                   translatedText, pendingTerms, newTermsCount, err>>
    /\ UNCHANGED <<exit, broke, faults, attempts, fetches, extractions, retryOf, retryFaults>>
    /\ UNCHANGED sharedVars
    /\ UNCHANGED configVars
    /\ UNCHANGED routeVars

\* a read of the source text whose error is not caught where it is raised
FetchContentFatal ==
    /\ pc = "fetch"
    /\ \/ /\ sourceContent' = DocContent(content[chapterNum])
          /\ IF IsBlank(sourceContent')
             THEN /\ logs' = PushLog(logs, "warning", "noContent", chapterNum)
                  /\ pc' = "loopHead"
             ELSE pc' = "readGlossary" /\ UNCHANGED logs
          /\ UNCHANGED faults
       \/ /\ MayFail
          /\ sourceContent' = EmptyText
          /\ faults' = Count(faults)
          /\ pc' = "catch"
          /\ UNCHANGED logs
    /\ fetches' = Count(fetches)
    /\ UNCHANGED <<status, translatedCount, currentChapter, totalToTranslate, targetChapters, apiKeys>>
    /\ UNCHANGED <<storeVars, keys, keyIndex, chaptersToProcess, chapterNum, glossaryText,
                   translatedText, pendingTerms, newTermsCount, err>>
    /\ UNCHANGED <<audit, exit, broke, attempts, extractions, retryOf, retryFaults>>
    /\ UNCHANGED sharedVars
    /\ UNCHANGED configVars
    /\ UNCHANGED routeVars

\* lines 80-95: the source text from the content store; a failed read leaves
\* it empty; an empty or blank text skips the chapter.
FetchContent ==
    /\ pc = "fetch"
    /\ \/ /\ sourceContent' = DocContent(content[chapterNum])
          /\ UNCHANGED faults
       \/ /\ MayFail
          /\ sourceContent' = EmptyText
          /\ faults' = Count(faults)
    /\ fetches' = Count(fetches)
    /\ IF IsBlank(sourceContent')
       THEN /\ logs' = PushLog(logs, "warning", "noContent", chapterNum)
            /\ pc' = "loopHead"
       ELSE pc' = "readGlossary" /\ UNCHANGED logs
    /\ UNCHANGED <<status, translatedCount, currentChapter, totalToTranslate, targetChapters, apiKeys>>
    /\ UNCHANGED <<storeVars, keys, keyIndex, chaptersToProcess, chapterNum, glossaryText,
                   translatedText, pendingTerms, newTermsCount, err>>
    /\ UNCHANGED <<audit, exit, broke, attempts, extractions, retryOf, retryFaults>>
    /\ UNCHANGED sharedVars
    /\ UNCHANGED configVars
    /\ UNCHANGED routeVars

\* lines 98-99: the glossary of the novel, read for this chapter.  The read is
\* outside the per-chapter try blocks: when it throws, the run leaves the loop.
ReadGlossary ==
    /\ pc = "readGlossary"
    /\ \/ /\ glossaryText' = GlossaryText(glossary)
          /\ pc' = "translate"
          /\ UNCHANGED faults
       \/ /\ MayFail
          /\ pc' = "catch"
          /\ faults' = Count(faults)
          /\ UNCHANGED glossaryText
    /\ UNCHANGED <<jobVars, storeVars>>
    /\ UNCHANGED <<audit, exit, broke, attempts, fetches, extractions, retryOf, retryFaults>>
    /\ UNCHANGED <<keys, keyIndex, chaptersToProcess, chapterNum, sourceContent,
                   translatedText, pendingTerms, newTermsCount, err>>
    /\ UNCHANGED sharedVars
    /\ UNCHANGED configVars
    /\ UNCHANGED routeVars

\* lines 113-130: the translation call answers with a text (which may be the
\* empty string).
TranslateOk ==
    /\ pc = "translate"
    /\ \/ /\ translatedText' = ArabicText
          /\ UNCHANGED faults
       \/ /\ MayFail
          /\ translatedText' = EmptyText
          /\ faults' = Count(faults)
    /\ logs' = PushLog(logs, "info", "translating", chapterNum)
    /\ attempts' = IF audit THEN Append(attempts, chapterNum) ELSE attempts
    /\ retryOf' = 0 /\ retryFaults' = 0
    /\ pc' = "extract"
    /\ UNCHANGED <<status, translatedCount, currentChapter, fixedVars, novelExists, chapters, content, glossary>>
    /\ UNCHANGED <<keys, keyIndex, chaptersToProcess, chapterNum, sourceContent, glossaryText,
                   pendingTerms, newTermsCount, err>>
    /\ UNCHANGED <<exit, broke, fetches, extractions>>
    /\ UNCHANGED sharedVars
    /\ lastCall' = LlmCall("translate", keyIndex, transPrompt)
    /\ UNCHANGED <<settings, transPrompt, extractPrompt, selectedModel, written>>
    /\ UNCHANGED routeVars

\* lines 132-140: the translation call fails with a rate-limit message: rotate
\* the key, wait, put the chapter back and go on with the loop.
TranslateRateLimited ==
    /\ pc = "translate"
    /\ MayFail
    /\ \E message \in {"429", "quota"} : IsRateLimit(message)
    /\ keyIndex' = NextKeyIndex(keyIndex)
    /\ logs' = PushLog(PushLog(logs, "info", "translating", chapterNum), "warning", "rotateKey", chapterNum)
    /\ chaptersToProcess' = Unshift(chaptersToProcess, chapterNum)
    /\ attempts' = IF audit THEN Append(attempts, chapterNum) ELSE attempts
    /\ faults' = Count(faults)
    /\ retryOf' = chapterNum /\ retryFaults' = faults'
    /\ pc' = "loopHead"
    /\ UNCHANGED <<status, translatedCount, currentChapter, fixedVars, novelExists, chapters, content, glossary>>
    /\ UNCHANGED <<keys, chapterNum, sourceContent, glossaryText, translatedText, pendingTerms, newTermsCount, err>>
    /\ UNCHANGED <<exit, broke, fetches, extractions>>
    /\ UNCHANGED sharedVars
    /\ lastCall' = LlmCall("translate", keyIndex, transPrompt)
    /\ UNCHANGED <<settings, transPrompt, extractPrompt, selectedModel, written>>
    /\ UNCHANGED routeVars

\* a handler that logs the failed translation call and goes on to the
\* extraction
TranslateFailedThenExtract ==
    /\ pc = "translate"
    /\ MayFail
    /\ faults' = Count(faults)
    /\ logs' = PushLog(PushLog(logs, "info", "translating", chapterNum), "error", "translateFailed", chapterNum)
    /\ attempts' = IF audit THEN Append(attempts, chapterNum) ELSE attempts
    /\ retryOf' = 0 /\ retryFaults' = 0
    /\ pc' = "extract"
    /\ UNCHANGED <<status, translatedCount, currentChapter, fixedVars, novelExists, chapters, content, glossary>>
    /\ UNCHANGED <<keys, keyIndex, chaptersToProcess, chapterNum, sourceContent, glossaryText,
                   translatedText, pendingTerms, newTermsCount, err>>
    /\ UNCHANGED <<exit, broke, fetches, extractions>>
    /\ UNCHANGED sharedVars
    /\ lastCall' = LlmCall("translate", keyIndex, transPrompt)
    /\ UNCHANGED <<settings, transPrompt, extractPrompt, selectedModel, written>>
    /\ UNCHANGED routeVars

\* a handler that treats every failed translation call as a rate limit: the
\* key is rotated and the chapter put back
TranslateFailedRetry ==
    /\ pc = "translate"
    /\ MayFail
    /\ faults' = Count(faults)
    /\ keyIndex' = NextKeyIndex(keyIndex)
    /\ logs' = PushLog(PushLog(logs, "info", "translating", chapterNum), "error", "translateFailed", chapterNum)
    /\ chaptersToProcess' = Unshift(chaptersToProcess, chapterNum)
    /\ attempts' = IF audit THEN Append(attempts, chapterNum) ELSE attempts
    /\ retryOf' = 0 /\ retryFaults' = 0
    /\ pc' = "loopHead"
    /\ UNCHANGED <<status, translatedCount, currentChapter, fixedVars, novelExists, chapters, content, glossary>>
    /\ UNCHANGED <<keys, chapterNum, sourceContent, glossaryText, translatedText, pendingTerms, newTermsCount, err>>
    /\ UNCHANGED <<exit, broke, fetches, extractions>>
    /\ UNCHANGED sharedVars
    /\ lastCall' = LlmCall("translate", keyIndex, transPrompt)
    /\ UNCHANGED <<settings, transPrompt, extractPrompt, selectedModel, written>>
    /\ UNCHANGED routeVars

\* lines 132-143: the translation call fails with any other message: the
\* chapter is skipped.
TranslateFailed ==
    /\ pc = "translate"
    /\ MayFail
    /\ \E message \in {"500"} : ~IsRateLimit(message)
    /\ faults' = Count(faults)
    /\ logs' = PushLog(PushLog(logs, "info", "translating", chapterNum), "error", "translateFailed", chapterNum)
    /\ attempts' = IF audit THEN Append(attempts, chapterNum) ELSE attempts
    /\ retryOf' = 0 /\ retryFaults' = 0
    /\ pc' = "loopHead"
    /\ UNCHANGED <<status, translatedCount, currentChapter, fixedVars, novelExists, chapters, content, glossary>>
    /\ UNCHANGED <<keys, keyIndex, chaptersToProcess, chapterNum, sourceContent, glossaryText,
                   translatedText, pendingTerms, newTermsCount, err>>
    /\ UNCHANGED <<exit, broke, fetches, extractions>>
    /\ UNCHANGED sharedVars
    /\ lastCall' = LlmCall("translate", keyIndex, transPrompt)
    /\ UNCHANGED <<settings, transPrompt, extractPrompt, selectedModel, written>>
    /\ UNCHANGED routeVars

\* lines 148-166: the key is rotated, the extraction call answers and its
\* answer parses.
ExtractOk ==
    /\ pc = "extract"
    /\ keyIndex' = NextKeyIndex(keyIndex)
    /\ \E r \in ExtractResults : pendingTerms' = IF r.hasNewTerms THEN r.newTerms ELSE <<>>
    /\ logs' = PushLog(logs, "info", "extracting", chapterNum)
    /\ extractions' = Count(extractions)
    /\ pc' = "saveTerms"
    /\ UNCHANGED <<status, translatedCount, currentChapter, fixedVars, novelExists, chapters, content, glossary>>
    /\ UNCHANGED <<keys, chaptersToProcess, chapterNum, sourceContent, glossaryText, translatedText, newTermsCount, err>>
    /\ UNCHANGED <<exit, broke, faults, attempts, fetches, retryOf, retryFaults>>
    /\ extracted' = IF watch THEN pendingTerms' ELSE extracted
    /\ UNCHANGED <<edits, inflight, upserted, removed, changed, watch>>
    /\ lastCall' = LlmCall("extract", keyIndex', extractPrompt)
    /\ UNCHANGED <<settings, transPrompt, extractPrompt, selectedModel, written>>
    /\ UNCHANGED routeVars

\* lines 148-166, 221: the extraction call throws, or JSON.parse does.
ExtractFailed ==
    /\ pc = "extract"
    /\ MayFail
    /\ faults' = Count(faults)
    /\ keyIndex' = NextKeyIndex(keyIndex)
    /\ logs' = PushLog(logs, "info", "extracting", chapterNum)
    /\ extractions' = Count(extractions)
    /\ err' = "extraction"
    /\ pc' = "fallback"
    /\ UNCHANGED <<status, translatedCount, currentChapter, fixedVars, novelExists, chapters, content, glossary>>
    /\ UNCHANGED <<keys, chaptersToProcess, chapterNum, sourceContent, glossaryText, translatedText,
                   pendingTerms, newTermsCount>>
    /\ UNCHANGED <<exit, broke, attempts, fetches, retryOf, retryFaults>>
    /\ UNCHANGED sharedVars
    /\ lastCall' = LlmCall("extract", keyIndex', extractPrompt)
    /\ UNCHANGED <<settings, transPrompt, extractPrompt, selectedModel, written>>
    /\ UNCHANGED routeVars

\* lines 175-187: the next extracted entry: dropped when it lacks a field,
\* upserted otherwise; an upsert that throws leaves the try block.
SaveTerm ==
    /\ pc = "saveTerms"
    /\ pendingTerms # <<>>
    /\ LET e == Head(pendingTerms) IN
       IF ~IsValidTerm(e)
       THEN /\ pendingTerms' = Tail(pendingTerms)
            /\ UNCHANGED <<glossary, newTermsCount, pc, err, faults, upserted, removed, changed>>
       ELSE \/ /\ glossary' = UpsertTerm(glossary, e)
               /\ newTermsCount' = newTermsCount + 1
               /\ pendingTerms' = Tail(pendingTerms)
               /\ upserted' = IF watch THEN upserted \cup {e.term} ELSE upserted
               /\ removed' = removed \ {e.term}
               /\ changed' = changed \ {e.term}
               /\ UNCHANGED <<pc, err, faults>>
            \/ /\ MayFail
               /\ pc' = "fallback"
               /\ err' = "upsert"
               /\ pendingTerms' = <<>>
               /\ faults' = Count(faults)
               /\ UNCHANGED <<glossary, newTermsCount, upserted, removed, changed>>
    /\ UNCHANGED <<edits, inflight, extracted, watch>>
    /\ UNCHANGED configVars
    /\ UNCHANGED routeVars
    /\ UNCHANGED <<jobVars, settingsKeys, firestore, novelExists, chapters, content>>
    /\ UNCHANGED <<audit, exit, broke, attempts, fetches, extractions, retryOf, retryFaults>>
    /\ UNCHANGED <<keys, keyIndex, chaptersToProcess, chapterNum, sourceContent, glossaryText, translatedText>>

\* a worker that counts the chapter before it writes it
TermsSavedThenCount ==
    /\ pc = "saveTerms"
    /\ pendingTerms = <<>>
    /\ logs' = IF newTermsCount > 0 THEN PushLog(logs, "success", "termsSaved", chapterNum) ELSE logs
    /\ pc' = "updateJob"
    /\ UNCHANGED <<status, translatedCount, currentChapter, fixedVars, novelExists, chapters, content, glossary>>
    /\ UNCHANGED <<keys, keyIndex, chaptersToProcess, chapterNum, sourceContent, glossaryText,
                   translatedText, pendingTerms, newTermsCount, err>>
    /\ UNCHANGED <<exit, broke, faults, attempts, fetches, extractions, retryOf, retryFaults>>
    /\ UNCHANGED sharedVars
    /\ UNCHANGED configVars
    /\ UNCHANGED routeVars

\* line 188: the terms are done.
TermsSaved ==
    /\ pc = "saveTerms"
    /\ pendingTerms = <<>>
    /\ logs' = IF newTermsCount > 0 THEN PushLog(logs, "success", "termsSaved", chapterNum) ELSE logs
    /\ pc' = "saveContent"
    /\ UNCHANGED <<status, translatedCount, currentChapter, fixedVars, novelExists, chapters, content, glossary>>
    /\ UNCHANGED <<keys, keyIndex, chaptersToProcess, chapterNum, sourceContent, glossaryText,
                   translatedText, pendingTerms, newTermsCount, err>>
    /\ UNCHANGED <<exit, broke, faults, attempts, fetches, extractions, retryOf, retryFaults>>
    /\ UNCHANGED sharedVars
    /\ UNCHANGED configVars
    /\ UNCHANGED routeVars

\* lines 192-203: the translated text is written over the chapter's document;
\* a write that throws is rethrown into the catch of line 221.
SaveContent ==
    /\ pc = "saveContent"
    /\ \/ /\ content' = [content EXCEPT ![chapterNum] = Doc(translatedText)]
          /\ written' = Written(translatedText)
          /\ pc' = "saveTitle"
          /\ UNCHANGED <<err, faults>>
       \/ /\ MayFail
          /\ pc' = "fallback"
          /\ err' = "firestore"
          /\ faults' = Count(faults)
          /\ UNCHANGED <<content, written>>
    /\ UNCHANGED <<jobVars, settingsKeys, firestore, novelExists, chapters, glossary>>
    /\ UNCHANGED <<audit, exit, broke, attempts, fetches, extractions, retryOf, retryFaults>>
    /\ UNCHANGED <<keys, keyIndex, chaptersToProcess, chapterNum, sourceContent, glossaryText,
                   translatedText, pendingTerms, newTermsCount>>
    /\ UNCHANGED sharedVars
    /\ UNCHANGED <<settings, transPrompt, extractPrompt, selectedModel, lastCall>>
    /\ UNCHANGED routeVars

\* a title update that matches the first chapter only
SetFirstTitle(list, n) ==
    IF novelExists /\ n \in DOMAIN list /\ n = 1 THEN [list EXCEPT ![n] = GeneratedTitle(n)] ELSE list

\* a title update that writes the whole chapter list back from the copy the
\* job loaded when it started
ReplaceChapters(list, n) ==
    IF novelExists /\ n \in DOMAIN list
    THEN [c \in DOMAIN list |-> IF c = n THEN GeneratedTitle(n) ELSE OriginalTitle(c)]
    ELSE list

\* Novel.findOneAndUpdate({ _id, "chapters.number": n }, { $set: { "chapters.$.title": ... } })
SetTitle(list, n) ==
    IF novelExists /\ n \in DOMAIN list THEN [list EXCEPT ![n] = GeneratedTitle(n)] ELSE list

\* lines 206-211: the chapter's title in the novel's list.
SaveTitle ==
    /\ pc = "saveTitle"
    /\ chapters' = SetTitle(chapters, chapterNum)
    /\ pc' = "updateJob"
    /\ UNCHANGED <<jobVars, settingsKeys, firestore, novelExists, content, glossary, seenVars>>
    /\ UNCHANGED <<keys, keyIndex, chaptersToProcess, chapterNum, sourceContent, glossaryText,
                   translatedText, pendingTerms, newTermsCount, err>>
    /\ UNCHANGED sharedVars
    /\ UNCHANGED configVars
    /\ UNCHANGED routeVars

\* a progress update that saves the job document as the worker loaded it,
\* with the new progress, over the stored one
UpdateJobWholeRecord ==
    /\ pc = "updateJob"
    /\ translatedCount' = translatedCount + 1
    /\ currentChapter' = chapterNum
    /\ logs' = PushLog(logs, "success", "chapterDone", chapterNum)
    /\ pc' = "cooldown"
    /\ status' = "active"
    /\ UNCHANGED <<fixedVars, novelExists, chapters, content, glossary>>
    /\ UNCHANGED <<keys, keyIndex, chaptersToProcess, chapterNum, sourceContent, glossaryText,
                   translatedText, pendingTerms, newTermsCount, err>>
    /\ UNCHANGED <<exit, broke, faults, attempts, fetches, extractions, retryOf, retryFaults>>
    /\ UNCHANGED sharedVars
    /\ UNCHANGED configVars
    /\ UNCHANGED routeVars

\* a progress update that reads the job's status again and skips a job that
\* is no longer active
UpdateJobIfActive ==
    /\ pc = "updateJob"
    /\ translatedCount' = IF IsActive(status) THEN translatedCount + 1 ELSE translatedCount
    /\ currentChapter' = IF IsActive(status) THEN chapterNum ELSE currentChapter
    /\ logs' = PushLog(logs, "success", "chapterDone", chapterNum)
    /\ pc' = "cooldown"
    /\ UNCHANGED <<status, fixedVars, novelExists, chapters, content, glossary>>
    /\ UNCHANGED <<keys, keyIndex, chaptersToProcess, chapterNum, sourceContent, glossaryText,
                   translatedText, pendingTerms, newTermsCount, err>>
    /\ UNCHANGED <<exit, broke, faults, attempts, fetches, extractions, retryOf, retryFaults>>
    /\ UNCHANGED sharedVars
    /\ UNCHANGED configVars
    /\ UNCHANGED routeVars

\* lines 214-219: the job's progress, then the success entry.
UpdateJob ==
    /\ pc = "updateJob"
    /\ translatedCount' = translatedCount + 1
    /\ currentChapter' = chapterNum
    /\ logs' = PushLog(logs, "success", "chapterDone", chapterNum)
    /\ pc' = "cooldown"
    /\ UNCHANGED <<status, fixedVars, novelExists, chapters, content, glossary>>
    /\ UNCHANGED <<keys, keyIndex, chaptersToProcess, chapterNum, sourceContent, glossaryText,
                   translatedText, pendingTerms, newTermsCount, err>>
    /\ UNCHANGED <<exit, broke, faults, attempts, fetches, extractions, retryOf, retryFaults>>
    /\ UNCHANGED sharedVars
    /\ UNCHANGED configVars
    /\ UNCHANGED routeVars

\* lines 221-240: after an error in extraction or saving, a translated text is
\* saved by itself: content, title, a warning; when that write throws, an error.
FallbackSave ==
    /\ pc = "fallback"
    /\ IsTruthy(translatedText)
    /\ \/ /\ content' = [content EXCEPT ![chapterNum] = Doc(translatedText)]
          /\ chapters' = SetTitle(chapters, chapterNum)
          /\ written' = Written(translatedText)
          /\ logs' = PushLog(logs, "warning", "savedWithoutTerms", chapterNum)
          /\ UNCHANGED faults
       \/ /\ MayFail
          /\ logs' = PushLog(logs, "error", "finalSaveFailed", chapterNum)
          /\ faults' = Count(faults)
          /\ UNCHANGED <<content, chapters, written>>
    /\ pc' = "cooldown"
    /\ UNCHANGED <<status, translatedCount, currentChapter, fixedVars, novelExists, glossary>>
    /\ UNCHANGED <<keys, keyIndex, chaptersToProcess, chapterNum, sourceContent, glossaryText,
                   translatedText, pendingTerms, newTermsCount, err>>
    /\ UNCHANGED <<exit, broke, attempts, fetches, extractions, retryOf, retryFaults>>
    /\ UNCHANGED sharedVars
    /\ UNCHANGED <<settings, transPrompt, extractPrompt, selectedModel, lastCall>>
    /\ UNCHANGED routeVars

\* lines 241-243: no translated text to save.
FallbackNoText ==
    /\ pc = "fallback"
    /\ ~IsTruthy(translatedText)
    /\ logs' = PushLog(logs, "error", "operationFailed", chapterNum)
    /\ pc' = "cooldown"
    /\ UNCHANGED <<status, translatedCount, currentChapter, fixedVars, novelExists, chapters, content, glossary>>
    /\ UNCHANGED <<keys, keyIndex, chaptersToProcess, chapterNum, sourceContent, glossaryText,
                   translatedText, pendingTerms, newTermsCount, err>>
    /\ UNCHANGED <<exit, broke, faults, attempts, fetches, extractions, retryOf, retryFaults>>
    /\ UNCHANGED sharedVars
    /\ UNCHANGED configVars
    /\ UNCHANGED routeVars

\* line 246: the cool down that ends an iteration.
Cooldown ==
    /\ pc = "cooldown"
    /\ pc' = "loopHead"
    /\ UNCHANGED <<jobVars, storeVars, seenVars>>
    /\ UNCHANGED <<keys, keyIndex, chaptersToProcess, chapterNum, sourceContent, glossaryText,
                   translatedText, pendingTerms, newTermsCount, err>>
    /\ UNCHANGED sharedVars
    /\ UNCHANGED configVars
    /\ UNCHANGED routeVars

\* an end of run that fails a job of which no chapter was counted
FinishIfTranslated ==
    /\ pc = "finish"
    /\ status' = IF translatedCount > 0 THEN "completed" ELSE "failed"
    /\ pc' = "finalLog"
    /\ UNCHANGED <<translatedCount, currentChapter, logs, fixedVars, novelExists, chapters, content, glossary>>
    /\ UNCHANGED <<keys, keyIndex, chaptersToProcess, chapterNum, sourceContent, glossaryText,
                   translatedText, pendingTerms, newTermsCount, err>>
    /\ UNCHANGED <<exit, broke, faults, attempts, fetches, extractions, retryOf, retryFaults>>
    /\ UNCHANGED sharedVars
    /\ UNCHANGED configVars
    /\ UNCHANGED routeVars

\* line 249: after the loop, whichever way it was left.
Finish ==
    /\ pc = "finish"
    /\ status' = "completed"
    /\ pc' = "finalLog"
    /\ UNCHANGED <<translatedCount, currentChapter, logs, fixedVars, novelExists, chapters, content, glossary>>
    /\ UNCHANGED <<keys, keyIndex, chaptersToProcess, chapterNum, sourceContent, glossaryText,
                   translatedText, pendingTerms, newTermsCount, err>>
    /\ UNCHANGED <<exit, broke, faults, attempts, fetches, extractions, retryOf, retryFaults>>
    /\ UNCHANGED sharedVars
    /\ UNCHANGED configVars
    /\ UNCHANGED routeVars

\* line 250: the last entry of the log; a write that throws is caught by the
\* catch of line 252.
FinalLog ==
    /\ pc = "finalLog"
    /\ \/ /\ logs' = PushLog(logs, "success", "allDone", 0)
          /\ pc' = "done" /\ exit' = "finished"
          /\ UNCHANGED faults
       \/ /\ MayFail
          /\ pc' = "catch"
          /\ faults' = Count(faults)
          /\ UNCHANGED <<logs, exit>>
    /\ UNCHANGED <<status, translatedCount, currentChapter, fixedVars, novelExists, chapters, content, glossary>>
    /\ UNCHANGED <<keys, keyIndex, chaptersToProcess, chapterNum, sourceContent, glossaryText,
                   translatedText, pendingTerms, newTermsCount, err>>
    /\ UNCHANGED <<broke, attempts, fetches, extractions, retryOf, retryFaults>>
    /\ UNCHANGED sharedVars
    /\ UNCHANGED configVars
    /\ UNCHANGED routeVars

\* a catch that also puts the job's progress back to where the run began
CatchAllRollback ==
    /\ pc = "catch"
    /\ status' = "failed"
    /\ translatedCount' = 0 /\ currentChapter' = 0
    /\ pc' = "done" /\ exit' = "exception"
    /\ UNCHANGED <<logs, fixedVars, novelExists, chapters, content, glossary>>
    /\ UNCHANGED <<keys, keyIndex, chaptersToProcess, chapterNum, sourceContent, glossaryText,
                   translatedText, pendingTerms, newTermsCount, err>>
    /\ UNCHANGED <<broke, faults, attempts, fetches, extractions, retryOf, retryFaults>>
    /\ UNCHANGED sharedVars
    /\ UNCHANGED configVars
    /\ UNCHANGED routeVars

\* lines 252-255: whatever escaped the try block.
CatchAll ==
    /\ pc = "catch"
    /\ status' = "failed"
    /\ pc' = "done" /\ exit' = "exception"
    /\ UNCHANGED <<translatedCount, currentChapter, logs, fixedVars, novelExists, chapters, content, glossary>>
    /\ UNCHANGED <<keys, keyIndex, chaptersToProcess, chapterNum, sourceContent, glossaryText,
                   translatedText, pendingTerms, newTermsCount, err>>
    /\ UNCHANGED <<broke, faults, attempts, fetches, extractions, retryOf, retryFaults>>
    /\ UNCHANGED sharedVars
    /\ UNCHANGED configVars
    /\ UNCHANGED routeVars

\* --------------------------------------------------------------- environment
\* An external actor pauses the job while the worker runs.
ExternalPause ==
    /\ pc # "done"
    /\ status = "active"
    /\ status' = "paused"
    /\ UNCHANGED <<translatedCount, totalToTranslate, currentChapter, targetChapters, apiKeys, logs>>
    /\ UNCHANGED <<storeVars, localVars, seenVars>>
    /\ UNCHANGED sharedVars
    /\ UNCHANGED configVars
    /\ UNCHANGED routeVars

\* The novel is deleted while the worker runs.
DeleteNovel ==
    /\ pc # "done"
    /\ novelExists
    /\ MayFail
    /\ novelExists' = FALSE
    /\ faults' = Count(faults)
    /\ UNCHANGED <<settingsKeys, firestore, chapters, content, glossary>>
    /\ UNCHANGED <<jobVars, localVars>>
    /\ UNCHANGED <<audit, exit, broke, attempts, fetches, extractions, retryOf, retryFaults>>
    /\ UNCHANGED sharedVars
    /\ UNCHANGED configVars
    /\ UNCHANGED routeVars

\* ------------------------------------------------- the novel's other users
\* the chapter another job on the same novel persists
OtherChapters == {3}

\* An upsert of the admin (POST /api/translator/glossary) or of another job
\* (line 177) reaches the glossary: an entry that matches is updated; when none
\* matches, the insert is under way.
OtherUpsert ==
    /\ pc # "done"
    /\ edits < MaxEdits /\ MayFail
    /\ \E e \in OtherRequests :
          IF HasTerm(glossary, e.term)
          THEN glossary' = UpdateEntry(glossary, e) /\ changed' = changed \cup {e.term} /\ UNCHANGED inflight
          ELSE inflight' = inflight \cup {e} /\ UNCHANGED <<glossary, changed>>
    /\ edits' = edits + 1
    /\ UNCHANGED <<jobVars, localVars, seenVars, upserted, removed, extracted, watch>>
    /\ UNCHANGED configVars
    /\ UNCHANGED routeVars
    /\ UNCHANGED <<settingsKeys, firestore, novelExists, chapters, content>>

\* The insert of an upsert that matched nothing.  When the term has been
\* inserted meanwhile the insert is refused, and the upsert is either run again
\* as an update or given up with an error.
OtherInsert ==
    /\ \E e \in inflight :
          /\ inflight' = inflight \ {e}
          /\ \/ glossary' = InsertUnique(glossary, e) /\ UNCHANGED changed
             \/ /\ HasTerm(glossary, e.term)
                /\ glossary' = UpdateEntry(glossary, e)
                /\ changed' = changed \cup {e.term}
    /\ UNCHANGED <<jobVars, localVars, seenVars, edits, upserted, removed, extracted, watch>>
    /\ UNCHANGED configVars
    /\ UNCHANGED routeVars
    /\ UNCHANGED <<settingsKeys, firestore, novelExists, chapters, content>>

\* DELETE /api/translator/glossary/:id and the bulk delete: the admin removes
\* an entry.
GlossaryDelete ==
    /\ pc # "done"
    /\ edits < MaxEdits /\ MayFail
    /\ \E i \in 1..Len(glossary) :
          /\ glossary' = RemoveAt(glossary, i)
          /\ removed' = removed \cup {glossary[i].term}
    /\ edits' = edits + 1
    /\ UNCHANGED <<jobVars, localVars, seenVars, inflight, upserted, changed, extracted, watch>>
    /\ UNCHANGED configVars
    /\ UNCHANGED routeVars
    /\ UNCHANGED <<settingsKeys, firestore, novelExists, chapters, content>>

\* Another job on the same novel persists its chapter: lines 193-211, the
\* content and then the title.
OtherJobPersist ==
    /\ pc # "done"
    /\ edits < MaxEdits /\ MayFail
    /\ \E c \in OtherChapters :
          /\ content' = [content EXCEPT ![c] = Doc(ArabicText)]
          /\ chapters' = SetTitle(chapters, c)
    /\ edits' = edits + 1
    /\ UNCHANGED <<jobVars, localVars, seenVars, inflight, upserted, removed, changed, extracted, watch>>
    /\ UNCHANGED configVars
    /\ UNCHANGED routeVars
    /\ UNCHANGED <<settingsKeys, firestore, novelExists, glossary>>

\* An admin saves other settings while the job runs.
SettingsChange ==
    /\ pc # "done"
    /\ edits < MaxEdits /\ MayFail
    /\ settings # ChangedSettings
    /\ settings' = ChangedSettings
    /\ settingsKeys' = ChangedKeys
    /\ edits' = edits + 1
    /\ UNCHANGED <<jobVars, localVars, seenVars, inflight, upserted, removed, changed, extracted, watch>>
    /\ UNCHANGED <<firestore, novelExists, chapters, content, glossary>>
    /\ UNCHANGED <<transPrompt, extractPrompt, selectedModel, lastCall, written>>
    /\ UNCHANGED routeVars

Worker ==
    \/ Start \/ LoadNovel \/ LoadSettings \/ LoopHead \/ FindChapter \/ FetchContent
    \/ ReadGlossary \/ TranslateOk \/ TranslateRateLimited \/ TranslateFailed
    \/ ExtractOk \/ ExtractFailed \/ SaveTerm \/ TermsSaved \/ SaveContent \/ SaveTitle
    \/ UpdateJob \/ FallbackSave \/ FallbackNoText \/ Cooldown \/ Finish \/ FinalLog \/ CatchAll

Next == Worker \/ ExternalPause \/ DeleteNovel

Spec == Init /\ [][Next]_vars

\* The same worker, not audited: it keeps no log, no counts and the cursor
\* modulo keys.length, so a run that never ends is a cycle of states.  The
\* event loop always runs the worker's next step; nothing obliges the LLM, the
\* stores or the external actor to any answer.
LiveInit == InitWith(FALSE, FALSE, TargetLists, Novels, KeySetups)

LiveSpec == LiveInit /\ [][Next]_vars /\ WF_vars(Worker)

\* The worker on a novel that an admin and another job use at the same time.
SharedLists == {<<1>>, <<1, 2>>}

SharedInit ==
    InitWith(TRUE, TRUE, SharedLists, {[c \in Chapters |-> "full"]},
             {[job |-> <<"k1", "k2">>, global |-> <<"g1">>],
              [job |-> <<>>, global |-> <<"g1", "g2">>]})

SharedNext == Next \/ OtherUpsert \/ OtherInsert \/ GlossaryDelete \/ OtherJobPersist \/ SettingsChange

SharedSpec == SharedInit /\ [][SharedNext]_vars

\* Jobs over three chapters in every order, on a novel whose chapters are all
\* listed with a full source text.
OrderInit ==
    InitWith(TRUE, FALSE, OrderLists, {[c \in Chapters |-> "full"]},
             {[job |-> <<"k1", "k2">>, global |-> <<"g1">>]})

OrderSpec == OrderInit /\ [][Next]_vars

\* A request to the start route, and the worker it starts: no job record
\* exists yet; the novel lists chapters 1 and 2, or is missing.
RouteInit ==
    /\ status = "none"
    /\ translatedCount = 0
    /\ currentChapter = 0
    /\ targetChapters = <<>>
    /\ totalToTranslate = 0
    /\ apiKeys = <<>>
    /\ logs = <<>>
    /\ settingsKeys = <<"g1">>
    /\ firestore = TRUE
    /\ novelExists \in BOOLEAN
    /\ chapters = [c \in JobChapters |-> OriginalTitle(c)]
    /\ content = [c \in Chapters |-> KindDoc("full")]
    /\ glossary = <<>>
    /\ pc = "route"
    /\ keys = <<>>
    /\ keyIndex = 0
    /\ chaptersToProcess = <<>>
    /\ chapterNum = 0
    /\ sourceContent = EmptyText
    /\ glossaryText = <<>>
    /\ translatedText = EmptyText
    /\ pendingTerms = <<>>
    /\ newTermsCount = 0
    /\ err = "none"
    /\ audit = TRUE
    /\ exit = "running"
    /\ broke = FALSE
    /\ faults = 0
    /\ attempts = <<>>
    /\ fetches = 0
    /\ extractions = 0
    /\ retryOf = 0
    /\ retryFaults = 0
    /\ edits = 0
    /\ inflight = {}
    /\ upserted = {}
    /\ removed = {}
    /\ changed = {}
    /\ extracted = <<>>
    /\ watch = FALSE
    /\ settings = SavedSettings
    /\ transPrompt = ""
    /\ extractPrompt = ""
    /\ selectedModel = ""
    /\ lastCall = NoCall
    /\ written = <<>>
    /\ request \in Requests
    /\ savedKeys \in {<<>>, <<"u1">>}
    /\ response = 0
    /\ jobs = 0
    /\ workers = 0

RouteNext == StartRoute \/ Next

RouteSpec == RouteInit /\ [][RouteNext]_vars

\* ------------------------------------------------------------------- claims
Last(s) == s[Len(s)]

NonDecreasing(s) == \A i \in 1..(Len(s) - 1) : s[i] <= s[i + 1]

HasKeys == Len(EffectiveKeys(apiKeys, settingsKeys)) > 0

\* C1: a job whose loop was left because an external actor paused it still has
\* status paused, not completed and not failed, when the worker has returned.
C1_PausedJobStaysPaused == (pc = "done" /\ broke) => status = "paused"

\* C2: a job with a target chapter and a key: every run of the worker
\* eventually returns, and once it has returned the job is not active,
\* whatever the LLM answers.
C2_EventuallyReturns ==
    (Len(targetChapters) > 0 /\ HasKeys)
        => (<>(pc = "done") /\ [](pc = "done" => status # "active"))

\* C3: translatedCount never exceeds totalToTranslate, in any state of a run on
\* a job the start route created.
C3_CountWithinTotal == translatedCount <= totalToTranslate

\* C3 witness: a run that ends with every target counted, one of them after a
\* rate-limit retry.
C3_Witness ==
    /\ pc = "done" /\ totalToTranslate = 2 /\ translatedCount = 2
    /\ Len(attempts) = 3

\* C4: the chapters on which a translation call is attempted come in
\* non-decreasing chapter number, whatever the order of targetChapters; for
\* targetChapters [5,3,4] with every call succeeding they are exactly 3, 4, 5.
C4_AscendingOrder ==
    /\ NonDecreasing(attempts)
    /\ (pc = "done" /\ exit = "finished" /\ targetChapters = <<5, 3, 4>> /\ faults = 0 /\ ~broke)
          => attempts = <<3, 4, 5>>

\* C4 witness: the job over [5,3,4] has run to its end without a failure.
C4_Witness ==
    /\ pc = "done" /\ exit = "finished" /\ targetChapters = <<5, 3, 4>> /\ faults = 0 /\ ~broke
    /\ attempts = <<3, 4, 5>> /\ translatedCount = 3

\* C5 (as claimed): a rate-limit failure of the translation call for chapter c
\* advances the key cursor by one and changes neither the job's status, its
\* progress nor any store; the rest of the queue is as it was; and the next
\* translation call the worker makes is again for c.
RateLimitStepEffects ==
    TranslateRateLimited =>
        /\ keyIndex' = keyIndex + 1
        /\ status' = status /\ translatedCount' = translatedCount /\ currentChapter' = currentChapter
        /\ content' = content /\ chapters' = chapters /\ glossary' = glossary
        /\ chaptersToProcess' = <<chapterNum>> \o chaptersToProcess

C5_NextCallSameChapter ==
    [][ /\ RateLimitStepEffects
        /\ (retryOf # 0 /\ Len(attempts') > Len(attempts)) => Last(attempts') = retryOf ]_vars

\* C5 (amended): the same effects; the next loop iteration is again for c, after
\* the status re-check; and the next translation call is again for c unless
\* something failed in between (the re-read of c's content, the novel).
C5_RateLimitRequeuesChapter ==
    [][ /\ RateLimitStepEffects
        /\ (retryOf # 0 /\ faults = retryFaults /\ pc = "loopHead" /\ pc' # "loopHead")
              => /\ chapterNum' = retryOf
                 /\ chaptersToProcess' = Tail(chaptersToProcess)
                 /\ pc' = (IF IsActive(status) THEN "findChapter" ELSE "finish")
        /\ (retryOf # 0 /\ faults = retryFaults /\ Len(attempts') > Len(attempts))
              => Last(attempts') = retryOf ]_vars

\* C5 witness: chapter 1 was rate limited, is being translated again, and
\* chapter 2 is still to come.
C5_Witness ==
    /\ pc = "extract" /\ attempts = <<1, 1>> /\ keyIndex = 1 /\ translatedCount = 0
    /\ chaptersToProcess = <<2>>

\* C6 (as claimed): when the extraction call fails after a successful
\* translation call, the translated text is written, the title is replaced, no
\* glossary entry changes, one warning entry is logged, the job's status is
\* left alone and the loop goes on.
ExtractionFailureLeavesGlossary == ExtractFailed => (glossary' = glossary /\ pc' = "fallback")

FallbackPersists ==
    /\ content' = [content EXCEPT ![chapterNum] = Doc(translatedText)]
    /\ IsTruthy(translatedText)
    /\ novelExists => chapters' = [chapters EXCEPT ![chapterNum] = GeneratedTitle(chapterNum)]
    /\ glossary' = glossary
    /\ logs' = Append(logs, LogEntry("warning", "savedWithoutTerms", chapterNum))
    /\ status' = status
    /\ pc' = "cooldown"

C7_PersistedChaptersAreCounted ==
    (/\ pc = "done" /\ exit = "finished" /\ ~broke /\ targetChapters = <<1, 2>>
     /\ \A c \in {1, 2} : /\ content[c] = Doc(ArabicText)
                          /\ c \in DOMAIN chapters
                          /\ chapters[c] = GeneratedTitle(c))
        => (translatedCount = 2 /\ status = "completed")

\* C8: a chapter whose content is empty, blank or shorter than the minimum
\* length never reaches the translation call.
C8_ShortContentNotTranslated ==
    pc \in {"readGlossary", "translate"}
        => (~IsBlank(sourceContent) /\ Length(sourceContent) >= MIN_LENGTH)

\* C9: with no key in the job and none in the settings, the worker makes no
\* content fetch and no LLM call, never enters the loop, and (unless start-up
\* stopped before the keys were looked at) ends with the job failed and exactly
\* one entry, of type error, added to its log.
C9_NoKeysFailsAtOnce ==
    (Len(apiKeys) = 0 /\ Len(settingsKeys) = 0) =>
        /\ fetches = 0 /\ attempts = <<>> /\ extractions = 0
        /\ pc \in {"start", "loadNovel", "loadSettings", "done"}
        /\ (pc = "done" /\ exit # "notActive")
              => (status = "failed" /\ Len(logs) = 2 /\ logs[1] = StartEntry /\ logs[2].type = "error")

\* C9 witness: the run ended at the key check.
C9_Witness ==
    /\ pc = "done" /\ exit = "noKeys" /\ Len(apiKeys) = 0 /\ Len(settingsKeys) = 0 /\ status = "failed"
    /\ logs = <<StartEntry, LogEntry("error", "noKeys", 0)>>

StartupFailure(message) ==
    /\ pc' = "done"
    /\ status' = "failed"
    /\ logs' = Append(logs, LogEntry("error", message, 0))
    /\ UNCHANGED <<translatedCount, currentChapter, glossary, content, chapters>>

C11_StartupFailureFailsJob ==
    [][ /\ (pc = "start" /\ status = "active" /\ ~firestore /\ pc' # pc) => StartupFailure("noFirestore")
        /\ (pc = "loadNovel" /\ ~novelExists /\ pc' # pc) => StartupFailure("noNovel")
        /\ pc' \in {"start", "loadNovel", "loadSettings"}
              => (fetches' = 0 /\ attempts' = <<>> /\ extractions' = 0 /\ translatedCount' = 0)
        /\ (pc' = "done" /\ exit' \in {"noFirestore", "noNovel"})
              => (fetches' = 0 /\ attempts' = <<>> /\ extractions' = 0 /\ Len(logs') = 2) ]_vars

\* C11 witness: the novel was gone when the worker looked for it.
C11_Witness ==
    /\ pc = "done" /\ exit = "noNovel" /\ status = "failed" /\ ~novelExists
    /\ logs = <<StartEntry, LogEntry("error", "noNovel", 0)>>
    /\ translatedCount = 0 /\ currentChapter = 0 /\ glossary = <<>>

\* C12: when an exception escapes the loop (the novel is gone, the glossary
\* read throws, a log write throws), the job becomes failed and nothing is
\* taken back: contents, titles, the glossary and the job's progress stay as
\* the persisted chapters left them.
C12_NoRollbackOnException ==
    [][ (pc = "catch" /\ pc' # pc)
          => /\ status' = "failed" /\ pc' = "done"
             /\ UNCHANGED <<translatedCount, currentChapter, content, chapters, glossary>> ]_vars

\* C12 witness: chapter 1 was persisted and counted, with a term learned, and
\* the run then failed on an exception.
C12_Witness ==
    /\ pc = "done" /\ exit = "exception" /\ status = "failed"
    /\ translatedCount = 1 /\ currentChapter = 1
    /\ content[1] = Doc(ArabicText) /\ chapters[1] = GeneratedTitle(1)
    /\ Len(glossary) = 1 /\ chaptersToProcess = <<>> /\ chapterNum = 2 /\ novelExists

\* C13: every change of the status of a running job (active, or paused
\* meanwhile) to failed made by the worker comes with an entry of type error
\* added to the job's log, the change made for an exception that escaped the
\* loop included.
C13_FailedIsLogged ==
    [][ (status' = "failed" /\ status \in {"active", "paused"})
          => (Len(logs') = Len(logs) + 1 /\ Last(logs').type = "error") ]_vars

\* C14: once the worker has written completed or failed, it writes no other
\* status in the same run.
C14_TerminalStatus ==
    [][ (status \in {"completed", "failed"}) => (status' = status) ]_vars

\* C15: the glossary holds at most one entry for a term (compared exactly, so
\* "Sect" and "sect" are two terms), whatever the worker, another job and the
\* admin upsert and in whatever order, a term named twice by one extraction
\* result included.
C15_OneEntryPerTerm ==
    \A i, j \in 1..Len(glossary) : glossary[i].term = glossary[j].term => i = j

\* C15 witness: the worker has upserted "Sect" while another client's insert of
\* the same term, which had matched no entry, is still under way; the entry
\* for "sect" stands beside it.
C15_Witness ==
    /\ "Sect" \in upserted /\ HasTerm(glossary, "Sect") /\ HasTerm(glossary, "sect")
    /\ \E e \in inflight : e.term = "Sect"
    /\ Len(glossary) = 2

\* C16: the pipeline's upsert changes the translation only: on a term the
\* glossary holds, the entry's autoGenerated flag (true, or false when the
\* admin curated it) and every other entry stay as they are; a term it does not
\* hold is added with autoGenerated true; and applying an extracted list a
\* second time leaves the glossary as the first application left it.
WorkerUpsert == pc = "saveTerms" /\ newTermsCount' = newTermsCount + 1

UpsertOnlySetsTranslation ==
    LET e == Head(pendingTerms) IN
    IF HasTerm(glossary, e.term)
    THEN /\ Len(glossary') = Len(glossary)
         /\ \A i \in 1..Len(glossary) :
               /\ glossary'[i].term = glossary[i].term
               /\ glossary'[i].autoGenerated = glossary[i].autoGenerated
               /\ glossary'[i].translation =
                     (IF glossary[i].term = e.term THEN e.translation ELSE glossary[i].translation)
    ELSE glossary' = Append(glossary, [term |-> e.term, translation |-> e.translation,
                                       autoGenerated |-> TRUE])

AppliedTwiceIsAppliedOnce ==
    \A r \in ExtractResults :
        ApplyTerms(ApplyTerms(glossary', r.newTerms), r.newTerms) = ApplyTerms(glossary', r.newTerms)

C16_UpsertIdempotent ==
    [][ /\ WorkerUpsert => UpsertOnlySetsTranslation
        /\ AppliedTwiceIsAppliedOnce ]_vars

\* C16 witness: the admin's entry for "Sect" (autoGenerated false) now carries
\* the translation "b" that only this job's extraction gives, and the admin's
\* entry for "sect" is as it was.
C16_Witness ==
    /\ glossary = <<[term |-> "Sect", translation |-> "b", autoGenerated |-> FALSE],
                    [term |-> "sect", translation |-> "m", autoGenerated |-> FALSE]>>
    /\ upserted = {"Sect"} /\ pc = "saveTerms" /\ newTermsCount = 2

\* the terms a glossary text names
TextTerms(text) == {text[i][1] : i \in 1..Len(text)}

TranslationCall == Len(attempts') > Len(attempts)

\* The glossary is read once in a chapter attempt, between the content fetch
\* and the translation call, and the text of the prompt is the whole glossary
\* as that read found it.
GlossaryReadPerAttempt ==
    /\ (pc = "readGlossary" /\ pc' = "translate") => glossaryText' = GlossaryText(glossary)
    /\ glossaryText' # glossaryText => pc \in {"readGlossary", "loopHead"}
    /\ (pc' = "readGlossary" /\ pc # pc') => (pc = "fetch" /\ glossaryText' = <<>>)
    /\ TranslationCall => pc = "translate"

\* C17 (as claimed): the glossary is read once per chapter attempt, and every
\* term the job has upserted is named in the glossary text of its next
\* translation call.
C17_LearnedTermsInNextPrompt ==
    [][ /\ GlossaryReadPerAttempt
        /\ TranslationCall => upserted \subseteq TextTerms(glossaryText) ]_vars

\* C17 (amended): the same, for the terms that have not been deleted through
\* the glossary routes since the job upserted them.
C17_KeptTermsInNextPrompt ==
    [][ /\ GlossaryReadPerAttempt
        /\ TranslationCall => (upserted \ removed) \subseteq TextTerms(glossaryText) ]_vars

\* C17 witness: chapter 2 is translated with a glossary text that names the
\* terms learned from chapter 1.
C17_Witness ==
    /\ pc = "extract" /\ attempts = <<1, 2>> /\ translatedCount = 1
    /\ upserted = {"Sect", "Qi"} /\ TextTerms(glossaryText) = {"Sect", "Qi"}

\* the terms of the extracted entries that have both fields
ValidTerms(list) == {list[i].term : i \in {j \in 1..Len(list) : IsValidTerm(list[j])}}

\* the translation of the last extracted entry for a term that has both fields
LastTranslation(list, t) ==
    LET I == {i \in 1..Len(list) : IsValidTerm(list[i]) /\ list[i].term = t} IN
    list[CHOOSE i \in I : \A j \in I : j <= i].translation

Holds(g, t, x) == \E i \in 1..Len(g) : g[i].term = t /\ g[i].translation = x

\* the content write of lines 192-203 succeeds: the chapter is persisted on the
\* path on which the extraction and every upsert succeeded
PersistedAfterExtraction == pc = "saveContent" /\ pc' = "saveTitle"

\* C18 (as claimed): no worker step removes a glossary term, and right after
\* a chapter is persisted with a successful extraction the glossary holds
\* every extracted pair that has both fields, with the extracted translation.
C18_EveryExtractedPairStored ==
    [][ /\ Worker => TermsOf(glossary) \subseteq TermsOf(glossary')
        /\ PersistedAfterExtraction =>
              \A i \in 1..Len(extracted) :
                  IsValidTerm(extracted[i]) =>
                      Holds(glossary', extracted[i].term, extracted[i].translation) ]_vars

\* C18 (amended): no worker step removes a glossary term, and right after a
\* chapter is persisted on the success path the glossary holds every
\* extracted term that has both fields, with the translation of its last
\* such entry in the extraction, unless another client deleted or rewrote
\* that entry after the worker's upsert.
C18_LastExtractedPairStored ==
    [][ /\ Worker => TermsOf(glossary) \subseteq TermsOf(glossary')
        /\ PersistedAfterExtraction =>
              \A t \in ValidTerms(extracted) \ (removed \cup changed) :
                  Holds(glossary', t, LastTranslation(extracted, t)) ]_vars

\* C18 witness: a chapter has just been persisted after an extraction of
\* three entries, one without a term; the two others are in the glossary,
\* next to an entry that was there before.
C18_Witness ==
    /\ pc = "saveTitle" /\ content[chapterNum] = Doc(ArabicText)
    /\ Len(extracted) = 3 /\ newTermsCount = 2
    /\ Holds(glossary, "Sect", "b") /\ Holds(glossary, "Qi", "a") /\ Holds(glossary, "sect", "m")
    /\ Len(glossary) = 3

\* C19: the status is looked at when an iteration starts and nowhere else in
\* it: the loop is left only from its head, and only on a status that is not
\* active; after that the worker fetches, translates, extracts and writes
\* nothing more to the glossary, the content, the titles or the progress; and
\* a chapter whose iteration has started on an active job goes on under a
\* pause: its translation call is made, its content written, and it is
\* counted.
C19_PauseSeenAtChapterBoundary ==
    [][ /\ (broke' /\ ~broke) => (pc = "loopHead" /\ ~IsActive(status))
        /\ (pc = "loopHead" /\ pc' = "findChapter") => IsActive(status)
        /\ (pc' = "finish" /\ pc' # pc) => pc = "loopHead"
        /\ broke => UNCHANGED <<fetches, attempts, extractions, glossary, content, chapters,
                                translatedCount, currentChapter>>
        /\ (status = "paused" /\ pc = "translate" /\ pc' # pc) => attempts' = Append(attempts, chapterNum)
        /\ (status = "paused" /\ pc = "saveContent" /\ pc' = "saveTitle")
              => content' = [content EXCEPT ![chapterNum] = Doc(translatedText)]
        /\ (status = "paused" /\ pc = "updateJob" /\ pc' # pc)
              => (translatedCount' = translatedCount + 1 /\ currentChapter' = chapterNum) ]_vars

\* C19 witness: the job was paused during chapter 1, which has been translated,
\* persisted and counted all the same; the pause has not been seen yet.
C19_Witness ==
    /\ pc = "cooldown" /\ status = "paused" /\ ~broke
    /\ chapterNum = 1 /\ attempts = <<1>> /\ content[1] = Doc(ArabicText)
    /\ chapters[1] = GeneratedTitle(1) /\ translatedCount = 1 /\ currentChapter = 1
    /\ chaptersToProcess = <<2>>

\* the entries of the chapter list other than those of the chapters in S are
\* left as they were
OnlyTitlesOf(S) == \A c \in DOMAIN chapters \ S : chapters'[c] = chapters[c]

\* C20: a title update touches the entry of its own chapter only, and only
\* its title: a step of the worker leaves every entry but that of chapterNum
\* as it was, a step of the other job every entry but that of its chapter, no
\* entry is added, dropped or renumbered, and a generated title, once
\* written, is never undone by a later update of either job.
C20_TitleUpdateIsTargeted ==
    [][ /\ DOMAIN chapters' = DOMAIN chapters
        /\ \A c \in DOMAIN chapters : chapters'[c].number = chapters[c].number
        /\ Worker => OnlyTitlesOf({chapterNum})
        /\ (pc = "saveTitle" /\ pc' # pc /\ novelExists)
              => chapters'[chapterNum] = GeneratedTitle(chapterNum)
        /\ edits' # edits => OnlyTitlesOf(OtherChapters)
        /\ \A c \in DOMAIN chapters : chapters[c].generated => chapters'[c] = chapters[c] ]_vars

\* C20 witness: this job has persisted chapter 1 and another job chapter 3 of
\* the same novel; both titles are the generated ones and chapter 2's is
\* still the original.
C20_Witness ==
    /\ pc = "updateJob" /\ chapterNum = 1 /\ edits > 0
    /\ content[1] = Doc(ArabicText) /\ content[3] = Doc(ArabicText)
    /\ chapters[1] = GeneratedTitle(1) /\ chapters[3] = GeneratedTitle(3)
    /\ chapters[2] = OriginalTitle(2)

\* the step of a translation call that fails without a rate-limit message:
\* the call is made, nothing comes back and no retry is recorded
TranslationSkipped ==
    /\ pc = "translate" /\ pc' = "loopHead"
    /\ TranslationCall /\ retryOf' = 0

\* C21: a translation call that fails with a message other than a rate limit
\* skips its chapter: after the entry that announced the call an error entry
\* is appended; no extraction call is made; the content, the titles and the
\* glossary are not written; translatedCount, currentChapter, the cursor and
\* the status are as before; and the chapter is not put back, so that the
\* next iteration takes the next entry of the queue.
C21_OtherErrorSkipsChapter ==
    [][ TranslationSkipped =>
          /\ logs' = Append(Append(logs, LogEntry("info", "translating", chapterNum)),
                            LogEntry("error", "translateFailed", chapterNum))
          /\ extractions' = extractions
          /\ UNCHANGED <<content, chapters, glossary>>
          /\ UNCHANGED <<translatedCount, currentChapter, keyIndex, status>>
          /\ chaptersToProcess' = chaptersToProcess
          /\ translatedText' = EmptyText ]_vars

\* C21 witness: the translation of chapter 1 failed with another error and
\* the worker is now past the translation call of chapter 2, with the cursor
\* where it started and nothing written for chapter 1.
C21_Witness ==
    /\ pc = "extract" /\ chapterNum = 2 /\ attempts = <<1, 2>>
    /\ status = "active" /\ keyIndex = 0 /\ translatedCount = 0 /\ extractions = 0
    /\ logs[3] = LogEntry("error", "translateFailed", 1)
    /\ content[1] # Doc(ArabicText) /\ chapters[1] = OriginalTitle(1) /\ glossary = <<>>

\* C22: every new iteration that follows the processing of a chapter (its
\* success, its extraction failure, its skip for a missing or empty chapter,
\* its translation error other than a rate limit) is entered from the cool
\* down.
C22_CooldownAfterEveryChapter ==
    [][ (pc' = "loopHead" /\ pc \notin {"loopHead", "loadSettings"} /\ retryOf' = 0)
          => pc = "cooldown" ]_vars

\* the step of a content read that raises an error
FetchRaised == pc = "fetch" /\ pc' # pc /\ faults' > faults

\* C23: a content read that raises an error is handled as a chapter without
\* content: a warning entry is appended, the chapter is skipped without any
\* call, translatedCount and the status are as before, nothing is written,
\* and the loop goes on with the next entry of the queue.
C23_FetchErrorSkipsChapter ==
    [][ FetchRaised =>
          /\ logs' = Append(logs, LogEntry("warning", "noContent", chapterNum))
          /\ pc' = "loopHead"
          /\ attempts' = attempts /\ extractions' = extractions
          /\ UNCHANGED <<status, translatedCount, currentChapter, keyIndex, chaptersToProcess>>
          /\ UNCHANGED <<content, chapters, glossary>> ]_vars

\* C23 witness: the read of chapter 1, whose content is there, raised an
\* error; the job is still active and the worker translates chapter 2.
C23_Witness ==
    /\ pc = "extract" /\ chapterNum = 2 /\ attempts = <<2>> /\ fetches = 2 /\ faults = 1
    /\ ~IsBlank(DocContent(content[1]))
    /\ logs[2] = LogEntry("warning", "noContent", 1)
    /\ status = "active" /\ translatedCount = 0

\* the worker's copy of the settings
Snapshot == <<keys, transPrompt, extractPrompt, selectedModel>>

\* a call to the language model is made in this step
CallMade == lastCall' # lastCall

Range(f) == {f[i] : i \in DOMAIN f}

\* C24: the worker never writes the Settings record; it takes its key list,
\* its model and its two instructions from it once, before the loop, and
\* every call it makes, from the first chapter's to the last chapter's, uses
\* those copies, whatever an admin saves in the record meanwhile.
C24_SettingsSnapshot ==
    [][ /\ Worker => UNCHANGED <<settings, settingsKeys>>
        /\ Snapshot' # Snapshot => pc = "loadSettings"
        /\ CallMade =>
              /\ lastCall'.model = selectedModel
              /\ lastCall'.key \in Range(keys)
              /\ lastCall'.prompt = IF lastCall'.kind = "translate" THEN transPrompt ELSE extractPrompt
              /\ lastCall.kind # "none" => lastCall'.model = lastCall.model
              /\ lastCall.kind = lastCall'.kind => lastCall'.prompt = lastCall.prompt
        /\ pc' = "loopHead" /\ pc = "loadSettings" =>
              /\ keys' = EffectiveKeys(apiKeys, settingsKeys)
              /\ selectedModel' = OrDefault(settings.translatorModel, DefaultModel) ]_vars

\* C24 witness: the job runs on the keys of the settings; chapter 1 is done,
\* an admin has saved other settings since the job read them, and the
\* extraction call of chapter 2 has used the model, the instruction and the
\* keys of the first read.
C24_Witness ==
    /\ pc = "saveTerms" /\ chapterNum = 2 /\ translatedCount = 1
    /\ apiKeys = <<>> /\ settings = ChangedSettings /\ settingsKeys = ChangedKeys
    /\ lastCall.kind = "extract" /\ lastCall.chapter = 2
    /\ lastCall.model = "gemini-2.0-flash" /\ lastCall.prompt = "custom extraction"
    /\ lastCall.key \in {"g1", "g2"}

\* the translation call of this step fails with a rate-limit message
RateLimitedCall == pc = "translate" /\ TranslationCall /\ retryOf' # 0

\* an extraction call is made in this step
ExtractionCall == extractions' # extractions

\* C25: the cursor is 0 when the loop starts; it moves only by one step up,
\* at a translation call that is rate limited and before an extraction call,
\* and at each of these; and every call is made with the key at the cursor
\* modulo the length of the key list, which is not empty.
C25_CredentialRotation ==
    [][ /\ (pc = "loadSettings" /\ pc' = "loopHead") => keyIndex' = 0
        /\ pc \in {"start", "loadNovel", "loadSettings"} => keyIndex = 0
        /\ keyIndex' # keyIndex => (keyIndex' = keyIndex + 1 /\ (RateLimitedCall \/ ExtractionCall))
        /\ (RateLimitedCall \/ ExtractionCall) => keyIndex' = keyIndex + 1
        /\ ExtractionCall => pc = "extract"
        /\ CallMade =>
              /\ Len(keys) > 0
              /\ lastCall'.cursor = IF lastCall'.kind = "translate" THEN keyIndex ELSE keyIndex + 1
              /\ lastCall'.key = keys[(lastCall'.cursor % Len(keys)) + 1]
              /\ keys = EffectiveKeys(apiKeys, settingsKeys) ]_vars

\* C25 witness: with two keys, chapter 1 was translated with the first and
\* extracted with the second, chapter 2 was rate limited on the second, and
\* its second translation call has used the first key again, at cursor 2.
C25_Witness ==
    /\ pc = "extract" /\ keys = <<"k1", "k2">> /\ keyIndex = 2
    /\ attempts = <<1, 2, 2>> /\ extractions = 1
    /\ lastCall.kind = "translate" /\ lastCall.chapter = 2
    /\ lastCall.cursor = 2 /\ lastCall.key = "k1"

\* the worker is past the choice of its key list, and has one
KeysChosen == pc \notin {"start", "loadNovel", "loadSettings"} /\ keys # <<>>

TranslationSucceeded ==
    /\ pc = "translate" /\ TranslationCall
    /\ logs' = Append(logs, LogEntry("info", "translating", chapterNum))

\* C27: the worker comes to the extraction only from a translation call of
\* the same iteration that came back without an error; the extraction call
\* is for the chapter of that translation call, with the cursor one further,
\* and it is made once: the step that makes it leaves the extraction.  A
\* translation call that failed, or a chapter that was skipped, leads back to
\* the loop head.
C27_ExtractionFollowsTranslation ==
    [][ /\ (pc' = "extract" /\ pc # "extract") => TranslationSucceeded
        /\ (pc = "translate" /\ pc' # pc /\ ~TranslationSucceeded) => pc' = "loopHead"
        /\ pc = "extract" =>
              (lastCall.kind = "translate" /\ lastCall.chapter = chapterNum /\ lastCall.cursor = keyIndex)
        /\ ExtractionCall =>
              /\ pc = "extract" /\ pc' # "extract"
              /\ extractions' = extractions + 1
              /\ lastCall'.kind = "extract" /\ lastCall'.chapter = lastCall.chapter
              /\ lastCall'.cursor = lastCall.cursor + 1 ]_vars

\* C27 witness: the translation of chapter 1 failed and no extraction was
\* made for it; chapter 2 was translated at cursor 0 and its extraction call
\* has been made at cursor 1.
C27_Witness ==
    /\ pc = "saveTerms" /\ chapterNum = 2 /\ attempts = <<1, 2>> /\ extractions = 1
    /\ lastCall.kind = "extract" /\ lastCall.chapter = 2 /\ lastCall.cursor = 1
    /\ keyIndex = 1 /\ translatedCount = 0

\* the worker appends to the log through pushLog (the start-up failures save
\* the whole job document instead)
PushLogStep == Len(logs') > Len(logs) /\ pc \notin {"start", "loadNovel", "loadSettings"}

\* C28: the progress update adds one to translatedCount and sets
\* currentChapter, and like every log append of pushLog it leaves the status,
\* targetChapters, totalToTranslate and apiKeys of the job as they are in the
\* store: a status that was set from outside after the chapter's status
\* check is still there after the update.  A log append changes nothing in
\* the job but the log, to which it adds at the end.
C28_JobWritesAreTargeted ==
    [][ /\ (pc = "updateJob" /\ pc' # pc) =>
              /\ translatedCount' = translatedCount + 1 /\ currentChapter' = chapterNum
              /\ UNCHANGED <<status, targetChapters, totalToTranslate, apiKeys>>
        /\ PushLogStep =>
              /\ UNCHANGED <<status, targetChapters, totalToTranslate, apiKeys>>
              /\ SubSeq(logs', 1, Len(logs)) = logs
              /\ pc # "updateJob" => UNCHANGED <<translatedCount, currentChapter>> ]_vars

\* C28 witness: the job was given as <<2, 1>> and paused while its second
\* chapter was under way; the progress update of that chapter has been made
\* and the job is still paused, its list and its keys as they were stored.
C28_Witness ==
    /\ pc = "cooldown" /\ chapterNum = 2 /\ status = "paused" /\ ~broke
    /\ translatedCount = 2 /\ currentChapter = 2
    /\ logs[Len(logs)] = LogEntry("success", "chapterDone", 2)
    /\ targetChapters = <<2, 1>> /\ totalToTranslate = 2 /\ apiKeys = <<"k1", "k2">>

\* the next extracted entry is handled in this step, and its upsert, if one
\* is made, does not throw
EntryHandled ==
    /\ pc = "saveTerms" /\ pendingTerms # <<>>
    /\ pendingTerms' # pendingTerms /\ faults' = faults

\* the extracted entries that have both a term and a translation
Complete(list) == {i \in 1..Len(list) : list[i].term # "" /\ list[i].translation # ""}

\* C29: an extracted entry without a term or without a translation is passed
\* over: the glossary, the log and the count of saved terms are as before,
\* no error is raised and the loop over the entries goes on; an entry with
\* both is upserted.  When the entries are done, as many have been saved as
\* had both fields, no entry of the glossary has an empty term or an empty
\* translation, a result without entries has added nothing to the log, and
\* the worker goes on to write the chapter, which it then counts.
C29_IncompleteEntriesDiscarded ==
    [][ /\ (EntryHandled /\ 1 \notin Complete(pendingTerms)) =>
              /\ glossary' = glossary /\ logs' = logs /\ newTermsCount' = newTermsCount
              /\ pc' = "saveTerms" /\ err' = err
        /\ (EntryHandled /\ 1 \in Complete(pendingTerms)) =>
              /\ Holds(glossary', pendingTerms[1].term, pendingTerms[1].translation)
              /\ newTermsCount' = newTermsCount + 1
        /\ (pc = "saveTerms" /\ pc' = "saveContent") =>
              /\ pendingTerms = <<>> /\ err' = "none"
              /\ newTermsCount = Cardinality(Complete(extracted))
              /\ \A i \in 1..Len(glossary) : glossary[i].term # "" /\ glossary[i].translation # ""
              /\ glossary' = glossary
              /\ extracted = <<>> => logs' = logs
              /\ Complete(extracted) = {} => logs' = logs
        /\ (pc = "saveTitle" /\ pc' # pc) => pc' = "updateJob"
        /\ (pc = "updateJob" /\ pc' # pc) => translatedCount' = translatedCount + 1 ]_vars

\* C29 witness: of the three extracted entries the one without a term was
\* passed over; the two others are in the glossary, and the chapter has been
\* written and counted.
C29_Witness ==
    /\ pc = "cooldown" /\ chapterNum = 1 /\ translatedCount = 1
    /\ Len(extracted) = 3 /\ extracted[2].term = "" /\ newTermsCount = 2
    /\ TermsOf(glossary) = {"Sect", "Qi"} /\ content[1] = Doc(ArabicText)
    /\ \A i \in 1..Len(logs) : logs[i].type \notin {"error", "warning"}

\* the types the schema allows for a log entry
LogTypes == {"info", "success", "error", "warning"}

\* C30: the log only grows at its end: after any step the log of before is
\* a prefix of the log, and every entry has one of the four types of the
\* schema.
C30_LogIsAppendOnly ==
    [][ /\ Len(logs') >= Len(logs)
        /\ SubSeq(logs', 1, Len(logs)) = logs
        /\ \A i \in 1..Len(logs') : logs'[i].type \in LogTypes ]_vars

\* C30 witness: a finished run whose log, begun by the start route's entry,
\* holds entries of all four types.
C30_Witness ==
    /\ pc = "done" /\ exit = "finished" /\ logs[1] = StartEntry /\ Len(logs) >= 6
    /\ \A t \in LogTypes : \E i \in 1..Len(logs) : logs[i].type = t

\* the success entries of the log
DoneEntries == {i \in 1..Len(logs) : logs[i].message = "chapterDone"}

C32_NoEmptyWrite == \A i \in 1..Len(written) : IsTruthy(written[i].text)

\* the worker looks up a chapter that is not in the list of the novel
ChapterNotListed ==
    /\ pc = "findChapter" /\ pc' # pc
    /\ novelExists /\ chapterNum \notin DOMAIN chapters

\* C33: a target chapter that is not in the novel's list is skipped: a
\* warning entry is appended and the loop goes on; no content is fetched, no
\* glossary read, no call made, nothing written to the content store, the
\* titles or the glossary, and translatedCount, currentChapter and the status
\* are as before.
C33_UnlistedChapterSkipped ==
    [][ ChapterNotListed =>
          /\ logs' = Append(logs, LogEntry("warning", "notInIndex", chapterNum))
          /\ pc' = "loopHead"
          /\ UNCHANGED <<fetches, attempts, extractions, lastCall, written, glossaryText>>
          /\ UNCHANGED <<content, chapters, glossary>>
          /\ UNCHANGED <<translatedCount, currentChapter, status, keyIndex, chaptersToProcess>> ]_vars

\* C33 witness: of the targets 1 and 2, chapter 1 was translated and chapter
\* 2, which the novel does not list, was skipped with a warning; the loop has
\* ended with the job still active.
C33_Witness ==
    /\ pc = "finish" /\ chapterNum = 2 /\ 2 \notin DOMAIN chapters /\ status = "active"
    /\ logs[Len(logs)] = LogEntry("warning", "notInIndex", 2)
    /\ fetches = 1 /\ attempts = <<1>> /\ translatedCount = 1 /\ Len(written) = 1

\* C34: a job that has been paused is left by the worker: whatever the
\* provider answers, and also when it answers every translation call with a
\* rate limit, the run comes to its end.
C34_PauseEndsRetryLoop == (status = "paused") ~> (pc = "done")

\* C34 witness: chapter 1 was rate limited and put back; the job was paused,
\* and the status read that precedes the re-attempt has broken the loop.
C34_Witness ==
    /\ pc = "finish" /\ broke /\ status = "paused"
    /\ chapterNum = 1 /\ retryOf = 1 /\ translatedText = EmptyText

\* C35: currentChapter never goes down; it is 0 or one of the job's target
\* chapters; and it is written only by the step that adds one to
\* translatedCount, with the number of the chapter of that step, so never
\* by an attempt that was skipped, failed or rate limited.
C35_CurrentChapterAdvances ==
    [][ /\ currentChapter' >= currentChapter
        /\ currentChapter = 0 \/ currentChapter \in Range(targetChapters)
        /\ (currentChapter = 0) = (translatedCount = 0)
        /\ currentChapter' # currentChapter =>
              /\ translatedCount' = translatedCount + 1
              /\ currentChapter' = chapterNum /\ chapterNum \in Range(targetChapters)
        /\ (TranslationSkipped \/ RateLimitedCall \/ FetchRaised \/ ChapterNotListed
              \/ pc = "fallback")
              => currentChapter' = currentChapter ]_vars

\* C35 witness: the job was given as <<2, 1>>; the translation call of
\* chapter 1 failed and left currentChapter at 0, chapter 2 was counted
\* and currentChapter is 2.
C35_Witness ==
    /\ targetChapters = <<2, 1>> /\ pc = "cooldown" /\ chapterNum = 2
    /\ attempts = <<1, 2>> /\ Len(written) = 1 /\ written[1].chapter = 2
    /\ translatedCount = 1 /\ currentChapter = 2
    /\ \E i \in 1..Len(logs) : logs[i] = LogEntry("error", "translateFailed", 1)

\* a job without target chapters makes no fetch, no call and no write, and
\* counts nothing
NothingDone ==
    /\ fetches = 0 /\ attempts = <<>> /\ extractions = 0 /\ lastCall = NoCall
    /\ written = <<>> /\ glossary = <<>>
    /\ translatedCount = 0 /\ currentChapter = 0

\* C37 (as claimed): the status of a job without target chapters is changed
\* by the worker once, from active to completed, and nothing is fetched,
\* called or written.
C37_EmptyJobCompletes ==
    [][ targetChapters = <<>> =>
          /\ NothingDone
          /\ (Worker /\ status' # status) => (status = "active" /\ status' = "completed") ]_vars

\* C37 (amended): a job without target chapters makes no fetch, no call and
\* no write and counts nothing; once the start-up has passed, the worker
\* enters no iteration, and the step it takes after the loop sets the status
\* to completed; a start-up that fails sets it to failed instead.
C37_EmptyJobCompletesAfterStartup ==
    [][ targetChapters = <<>> =>
          /\ NothingDone
          /\ (pc = "loopHead" /\ pc' # pc) => (pc' = "finish" /\ ~broke')
          /\ (pc = "finish" /\ pc' # pc) => (status' = "completed" /\ translatedCount' = 0)
          /\ (Worker /\ status' # status) =>
                \/ status' = "completed" /\ pc = "finish"
                \/ status' = "failed" /\ pc \in {"start", "loadNovel", "loadSettings", "catch"} ]_vars

\* C37 witness: the run of a job without target chapters has ended, the job
\* is completed with nothing counted, and its log holds the entry of the
\* start route and the final one.
C37_Witness ==
    /\ targetChapters = <<>> /\ totalToTranslate = 0
    /\ pc = "done" /\ exit = "finished" /\ status = "completed" /\ translatedCount = 0
    /\ fetches = 0 /\ attempts = <<>> /\ written = <<>> /\ Len(logs) = 2

\* the route's answer without a job: no job record is saved, no worker started
Rejected == jobs' = jobs /\ workers' = workers /\ UNCHANGED jobVars /\ pc' = "answered"

\* the route's answer with a job: one record, active, nothing counted, with
\* keys and the total of its list, and one worker run on it
Created ==
    /\ jobs' = jobs + 1 /\ workers' = workers + 1 /\ pc' = "start" /\ response' = 200
    /\ status' = "active" /\ translatedCount' = 0 /\ apiKeys' # <<>>
    /\ totalToTranslate' = Len(targetChapters')

NovelOrKeyMissing == ~novelExists \/ (request.apiKeys = <<>> /\ savedKeys = <<>>)

\* C36 (as claimed): the start route rejects the request, saving no job and
\* starting no worker, when the novel is missing or neither the request nor
\* the user's settings hold a key; every other request creates one active
\* job with keys and starts one worker on it.
C36_JobCreation ==
    [][ (pc = "route" /\ pc' # pc) =>
          IF NovelOrKeyMissing THEN Rejected /\ response' # 200 ELSE Created ]_vars

\* C36 (amended): as claimed, except that a request with the novel and a
\* key is answered 500, with no job saved and no worker started, when a
\* database call of the route throws, as the save does on a chapter list
\* with an entry that is no number; never more than one job and one worker come of
\* a request, and a worker runs only on a saved job.
C36_JobCreationUnlessThrown ==
    [][ /\ (pc = "route" /\ pc' # pc) =>
             IF NovelOrKeyMissing THEN Rejected /\ response' # 200
             ELSE Created \/ (Rejected /\ response' = 500)
        /\ (pc # "route") => (jobs' = jobs /\ workers' = workers)
        /\ workers = jobs /\ jobs <= 1
        /\ (jobs = 0) = (status = "none")
        /\ (jobs = 1) => (apiKeys # <<>> /\ totalToTranslate = Len(targetChapters)) ]_vars

\* C36 witness: a request without keys that resumes from chapter 2 has been
\* answered with a job of one chapter on the user's saved key, and the worker
\* is at its first line.
C36_Witness ==
    /\ request.apiKeys = <<>> /\ request.resumeFrom = 2 /\ savedKeys = <<"u1">>
    /\ response = 200 /\ jobs = 1 /\ workers = 1 /\ pc = "start"
    /\ status = "active" /\ translatedCount = 0 /\ apiKeys = <<"u1">>
    /\ targetChapters = <<2>> /\ totalToTranslate = 1 /\ logs = <<StartEntry>>

====
